---------------------------- MODULE Spec2Model ----------------------------
(***************************************************************************)
(* A model of the online ridership predictor (src/utils/ridership.py), of   *)
(* the offline ingestor and model builder (src/utils/ridership_model.py)   *)
(* and of the toll-zone aggregator (toggles-checkpoint.py).                *)
(*                                                                         *)
(* Conventions                                                             *)
(*  - A Python str is a sequence of one-character strings, so that         *)
(*    split(), lower(), int() and the %H:%M formatting are computed        *)
(*    character by character.                                              *)
(*  - A Python float is an exact rational [n, d] kept in lowest terms;     *)
(*    round(x, 2) is round-half-even on that rational and yields an        *)
(*    integer number of hundredths.                                        *)
(*  - A Python dict is a function; "k in d" is k \in DOMAIN d.             *)
(*  - An exception is a value: an operator that can raise returns a        *)
(*    record with the field exc, and the enclosing try/except is the       *)
(*    operator that inspects it.                                           *)
(***************************************************************************)
EXTENDS Integers, Sequences, FiniteSets, TLC

VARIABLES
    stops_file,        \* the registry CSV: [exists, names]
    manhattan_unique,  \* module global set at import (ridership.py:28-39)
    model_file,        \* the pickle on disk: [exists, loads, models]
    now,               \* the wall clock: [hour, minute, weekday]
    pc,                \* "idle" | "loop" | "fallback" | "done"
    time_str,          \* argument of the running call
    day_str,           \* argument of the running call
    parsed,            \* locals of lines 64-95: [ok, hour, minute, time_bin, day_of_week, is_aggregate]
    models,            \* the loaded model object
    multiplier,        \* local of generate_fallback_predictions
    ridership_pred,    \* the dict being filled, as a sequence of rows in insertion order
    i,                 \* position of the running for-loop in manhattan_unique
    result,            \* what the call handed to its caller: [kind, rows, for_time, for_day]
    prev,              \* the previous call, as seen by a caller that made two
    \* fetch_historical_data (ridership_model.py:10-58)
    fetch_pc,          \* "idle" | "while" | "attempt" | "advance" | "returned"
    fetch_args,        \* [start_date, end_date, batch_size], times in seconds
    current_date,      \* local of line 18
    batch_end,         \* local of line 22
    attempt,           \* the for-loop variable of line 32
    all_data,          \* local of line 17
    http_log,          \* every requests.get made so far, and the sleep after it
    \* generate_model and __main__ (ridership_model.py:238-306)
    gen_pc,            \* "idle" | "load" | "process" | "build" | "fit" | "save" | "exit" | "exited"
    stops_path,        \* the registry CSV as find_file finds it: [exists, names]
    cache_file,        \* ridership_data_cache.csv: [exists, frame]
    use_cached_data,   \* argument of generate_model
    df_raw,            \* local of lines 262-265
    processed_data,    \* local of line 274
    models_dict,       \* local of build_time_of_day_models
    b_i,               \* position of the running station loop of the builder
    pickle_file,       \* utils/models.pickle as this run left it: [written, models]
    returned,          \* what generate_model returned: "none" | "True" | "False" | "raised"
    exit_status,       \* of the builder process, -1 while it runs
    \* the toll-zone aggregator (toggles-checkpoint.py)
    tog_pc,            \* "idle" | "import" | "main" | "aggregated" | "aligned" | "format" | "formatted" | "raised"
    dataframes,        \* module global of lines 41-48: class key -> rows
    taxi_pred_df,      \* module global of line 38: rows
    toggles,           \* argument of aggregate_by_time_and_region, in dict order
    toggles_agg_df,    \* what aggregate_by_time_and_region returned
    taxi_aligned_df,   \* what aggregate_taxi_by_time_and_location returned
    fmt_df,            \* argument of the running format_toggle_data: [src, columns, rows]
    f_i,               \* position of its row loop
    region_key,        \* local of lines 132-137
    output_list        \* local of line 128

predVars == << stops_file, manhattan_unique, model_file, now, pc, time_str, day_str,
               parsed, models, multiplier, ridership_pred, i, result, prev >>
fetchVars == << fetch_pc, fetch_args, current_date, batch_end, attempt, all_data,
                http_log >>
genVars == << gen_pc, stops_path, cache_file, use_cached_data, df_raw,
              processed_data, models_dict, b_i, pickle_file, returned, exit_status >>
togVars == << tog_pc, dataframes, taxi_pred_df, toggles, toggles_agg_df,
              taxi_aligned_df, fmt_df, f_i, region_key, output_list >>
vars == << predVars, fetchVars, genVars, togVars >>

\* what each component leaves alone
notPred == << fetchVars, genVars, togVars >>
notFetch == << predVars, genVars, togVars >>
notGen == << predVars, fetchVars, togVars >>
notTog == << predVars, fetchVars, genVars >>

\* a frame: its columns and its rows in index order
EmptyFrame == [columns |-> {}, rows |-> << >>]

\* models_dict of lines 145-150; ar_params[s] stands for
\* by_station[s]["ar_params"] (line 232)
NoModelsDict ==
    [by_station |-> << >>, by_day_and_time |-> << >>, time_patterns |-> << >>,
     day_of_week_factors |-> << >>, ar_params |-> << >>]

\* an operator that has not returned anything yet
NoFrame == [exc |-> FALSE, columns |-> << >>, rows |-> << >>]

\* the aggregator module is not loaded
TogIdle ==
    /\ tog_pc = "idle"
    /\ dataframes = << >>
    /\ taxi_pred_df = << >>
    /\ toggles = << >>
    /\ toggles_agg_df = NoFrame
    /\ taxi_aligned_df = NoFrame
    /\ fmt_df = [src |-> "", columns |-> << >>, rows |-> << >>]
    /\ f_i = 0
    /\ region_key = << >>
    /\ output_list = << >>

\* the builder has not been started
GenIdle ==
    /\ gen_pc = "idle"
    /\ stops_path = [exists |-> FALSE, names |-> << >>]
    /\ cache_file = [exists |-> FALSE, frame |-> EmptyFrame]
    /\ use_cached_data = FALSE
    /\ df_raw = EmptyFrame
    /\ processed_data = EmptyFrame
    /\ models_dict = NoModelsDict
    /\ b_i = 0
    /\ pickle_file = [written |-> FALSE, models |-> NoModelsDict]
    /\ returned = "none"
    /\ exit_status = -1

\* fetch_historical_data has not been called
FetchIdle ==
    /\ fetch_pc = "idle"
    /\ fetch_args = [start_date |-> 0, end_date |-> 0, batch_size |-> 0]
    /\ current_date = 0
    /\ batch_end = 0
    /\ attempt = 0
    /\ all_data = << >>
    /\ http_log = << >>

-----------------------------------------------------------------------------
(* Exact rationals for Python floats.                                      *)

RECURSIVE GCD(_, _)
GCD(a, b) == IF b = 0 THEN a ELSE GCD(b, a % b)

Abs(x) == IF x < 0 THEN -x ELSE x

R(n, d) ==
    LET g == GCD(Abs(n), d)
    IN  [n |-> n \div g, d |-> d \div g]

RInt(k) == [n |-> k, d |-> 1]
RMul(a, b) == R(a.n * b.n, a.d * b.d)
RAdd(a, b) == R(a.n * b.d + b.n * a.d, a.d * b.d)
RDivInt(a, k) == R(a.n, a.d * k)
RLess(a, b) == a.n * b.d < b.n * a.d

RECURSIVE RSum(_)
RSum(s) == IF s = << >> THEN RInt(0) ELSE RAdd(Head(s), RSum(Tail(s)))

\* round(x, 2) of a non-negative x, in hundredths, ties to even
Round2(x) ==
    LET num == x.n * 100
        q == num \div x.d
        r == num % x.d
    IN  IF 2 * r < x.d THEN q
        ELSE IF 2 * r > x.d THEN q + 1
        ELSE IF q % 2 = 0 THEN q ELSE q + 1

\* an int stored in the ridership_pred column, in hundredths
Hundredths(k) == k * 100

-----------------------------------------------------------------------------
(* Strings.                                                                *)

UpperCase == << "A","B","C","D","E","F","G","H","I","J","K","L","M",
                "N","O","P","Q","R","S","T","U","V","W","X","Y","Z" >>
LowerCase == << "a","b","c","d","e","f","g","h","i","j","k","l","m",
                "n","o","p","q","r","s","t","u","v","w","x","y","z" >>
Digits == << "0","1","2","3","4","5","6","7","8","9" >>

LowerChar(c) ==
    IF \E k \in 1..Len(UpperCase) : UpperCase[k] = c
    THEN LowerCase[CHOOSE k \in 1..Len(UpperCase) : UpperCase[k] = c]
    ELSE c

\* str.lower()
Lower(s) == [k \in 1..Len(s) |-> LowerChar(s[k])]

IsDigit(c) == \E k \in 1..Len(Digits) : Digits[k] = c
DigitVal(c) == (CHOOSE k \in 1..Len(Digits) : Digits[k] = c) - 1

\* str.split(sep): the parts between occurrences of the separator
RECURSIVE SplitFrom(_, _, _)
SplitFrom(s, sep, cur) ==
    IF s = << >> THEN << cur >>
    ELSE IF Head(s) = sep THEN << cur >> \o SplitFrom(Tail(s), sep, << >>)
    ELSE SplitFrom(Tail(s), sep, Append(cur, Head(s)))

Split(s, sep) == SplitFrom(s, sep, << >>)

\* str.strip() restricted to blanks, as int() applies it
RECURSIVE LStrip(_)
LStrip(s) == IF s # << >> /\ Head(s) = " " THEN LStrip(Tail(s)) ELSE s

RECURSIVE RStrip(_)
RStrip(s) ==
    IF s # << >> /\ s[Len(s)] = " " THEN RStrip(SubSeq(s, 1, Len(s) - 1)) ELSE s

Strip(s) == RStrip(LStrip(s))

RECURSIVE DigitsVal(_, _)
DigitsVal(s, acc) ==
    IF s = << >> THEN acc ELSE DigitsVal(Tail(s), acc * 10 + DigitVal(Head(s)))

\* int(s): blanks stripped, an optional sign, then one or more decimal digits;
\* anything else raises ValueError
ParseInt(s) ==
    LET t == Strip(s)
        signed == t # << >> /\ Head(t) \in {"-", "+"}
        body == IF signed THEN Tail(t) ELSE t
        good == body # << >> /\ \A k \in 1..Len(body) : IsDigit(body[k])
    IN  IF ~good THEN [exc |-> TRUE, val |-> 0]
        ELSE [exc |-> FALSE,
              val |-> IF signed /\ Head(t) = "-"
                      THEN -DigitsVal(body, 0) ELSE DigitsVal(body, 0)]

RECURSIVE NatToStr(_)
NatToStr(k) ==
    IF k < 10 THEN << Digits[k + 1] >>
    ELSE Append(NatToStr(k \div 10), Digits[(k % 10) + 1])

\* format(k, "02d"): sign first, then zero padding to a total width of two
Fmt02(k) ==
    LET d == NatToStr(Abs(k))
    IN  IF k < 0 THEN << "-" >> \o d
        ELSE IF Len(d) < 2 THEN << "0" >> \o d ELSE d

\* "%H:%M" and f"{hour:02d}:{minute:02d}"
FmtHM(h, m) == Fmt02(h) \o << ":" >> \o Fmt02(m)


-----------------------------------------------------------------------------
(* Dicts and the registry.                                                 *)

In(k, d) == k \in DOMAIN d
Get(d, k, default) == IF k \in DOMAIN d THEN d[k] ELSE default
EmptyDict == [k \in {} |-> 0]

\* the stand-in for an argument left at its default, None
None == << "<None>" >>

\* the frame the module builds when the stops file is not found
DummyStops == << "Times Square", "Grand Central", "Union Square" >>

\* manhattan_stops["Stop Name"]
StopNames(file) == IF file.exists THEN file.names ELSE DummyStops

\* a variant that keeps each name's last appearance instead of its first
RECURSIVE Unique_KeepLast(_)
Unique_KeepLast(names) ==
    IF names = << >> THEN << >>
    ELSE IF \E k \in 2..Len(names) : names[k] = Head(names)
         THEN Unique_KeepLast(Tail(names))
         ELSE << Head(names) >> \o Unique_KeepLast(Tail(names))

\* Series.unique(): the distinct values in order of first appearance
RECURSIVE UniqueFrom(_, _)
UniqueFrom(names, seen) ==
    IF names = << >> THEN seen
    ELSE IF \E k \in 1..Len(seen) : seen[k] = Head(names)
         THEN UniqueFrom(Tail(names), seen)
         ELSE UniqueFrom(Tail(names), Append(seen, Head(names)))

Unique(names) == UniqueFrom(names, << >>)

\* ridership_pred[station] = value on a dict kept in insertion order
DictSet(rows, row) ==
    IF \E k \in 1..Len(rows) : rows[k].station = row.station
    THEN [k \in 1..Len(rows) |->
            IF rows[k].station = row.station THEN row ELSE rows[k]]
    ELSE Append(rows, row)

-----------------------------------------------------------------------------
(* Lines 55-95 of ridership(): the arguments.                              *)

k_monday == << "m", "o", "n", "d", "a", "y" >>
k_tuesday == << "t", "u", "e", "s", "d", "a", "y" >>
k_wednesday == << "w", "e", "d", "n", "e", "s", "d", "a", "y" >>
k_thursday == << "t", "h", "u", "r", "s", "d", "a", "y" >>
k_friday == << "f", "r", "i", "d", "a", "y" >>
k_saturday == << "s", "a", "t", "u", "r", "d", "a", "y" >>
k_sunday == << "s", "u", "n", "d", "a", "y" >>
k_weekday == << "w", "e", "e", "k", "d", "a", "y" >>
k_weekend == << "w", "e", "e", "k", "e", "n", "d" >>
k_weekdays == << "w", "e", "e", "k", "d", "a", "y", "s" >>
k_weekends == << "w", "e", "e", "k", "e", "n", "d", "s" >>
k_all == << "a", "l", "l" >>

day_map ==
    (k_monday :> "Monday") @@
    (k_tuesday :> "Tuesday") @@
    (k_wednesday :> "Wednesday") @@
    (k_thursday :> "Thursday") @@
    (k_friday :> "Friday") @@
    (k_saturday :> "Saturday") @@
    (k_sunday :> "Sunday") @@
    (k_weekday :> "Weekday") @@
    (k_weekend :> "Weekend") @@
    (k_weekdays :> "Weekday") @@
    (k_weekends :> "Weekend") @@
    (k_all :> "All")

\* strftime("%A") of the wall clock's day
DayName ==
    ("Monday" :> << "M", "o", "n", "d", "a", "y" >>) @@
    ("Tuesday" :> << "T", "u", "e", "s", "d", "a", "y" >>) @@
    ("Wednesday" :> << "W", "e", "d", "n", "e", "s", "d", "a", "y" >>) @@
    ("Thursday" :> << "T", "h", "u", "r", "s", "d", "a", "y" >>) @@
    ("Friday" :> << "F", "r", "i", "d", "a", "y" >>) @@
    ("Saturday" :> << "S", "a", "t", "u", "r", "d", "a", "y" >>) @@
    ("Sunday" :> << "S", "u", "n", "d", "a", "y" >>)

weekdays == << "Monday", "Tuesday", "Wednesday", "Thursday", "Friday" >>
weekend_days == << "Saturday", "Sunday" >>

\* lines 56-58
DefaultTime(t, clock) == IF t = None THEN FmtHM(clock.hour, clock.minute) ELSE t

\* lines 60-62
DefaultDay(d, clock) == IF d = None THEN Lower(DayName[clock.weekday]) ELSE d

\* line 68 (and 74)
TimeBin(hour, minute) == (hour * 60 + minute) \div 10

\* lines 65-74: hour, minute = map(int, time_str.split(':')), and on any
\* exception the wall clock's hour and minute
ParseTime(t, clock) ==
    LET parts == Split(t, ":")
        h == ParseInt(parts[1])
        m == ParseInt(parts[2])
    IN  IF Len(parts) = 2 /\ ~h.exc /\ ~m.exc
        THEN [ok |-> TRUE, hour |-> h.val, minute |-> m.val,
              time_bin |-> TimeBin(h.val, m.val)]
        ELSE [ok |-> FALSE, hour |-> clock.hour, minute |-> clock.minute,
              time_bin |-> TimeBin(clock.hour, clock.minute)]

\* a variant that looks the string up as given
NormalizeDay_CaseSensitive(d) == Get(day_map, d, "Weekday")

\* line 92
NormalizeDay(d) == Get(day_map, Lower(d), "Weekday")

\* line 95
IsAggregate(day_of_week) == day_of_week \in {"Weekday", "Weekend", "All"}

-----------------------------------------------------------------------------
(* Lines 101-118: finding, loading and validating the model.               *)

SectionNames == {"by_station", "time_patterns", "day_of_week_factors", "by_day_and_time"}

\* models.get(name, {})
Section(m, name) == IF name \in m.has THEN m[name] ELSE EmptyDict

\* line 102: find_file returns a path or None
FindModel(file) == file.exists

\* lines 113-114: pickle.load raises on a blob that does not unpickle
LoadModel(file) ==
    IF file.loads THEN [exc |-> FALSE, models |-> file.models]
    ELSE [exc |-> TRUE, models |-> file.models]

\* line 116: not models or not isinstance(models, dict)
InvalidModel(m) == ~m.truthy \/ ~m.isdict

\* lines 218-220: what the outermost handler does with an exception
\* a variant in which the outermost handler lets the exception through
OuterExcept_Reraise == "raise"

OuterExcept == "fallback"

-----------------------------------------------------------------------------
(* Lines 123-206: one station.                                             *)

Row(station, pred, branch, draw, pre_overlay, overlay, pre_floor) ==
    [station |-> station, ridership_pred |-> pred, branch |-> branch,
     draw |-> draw, pre_overlay |-> pre_overlay, overlay |-> overlay,
     pre_floor |-> pre_floor]

\* lines 135-138
TimeFactor(m, station, time_bin) ==
    IF In(station, Section(m, "time_patterns"))
    THEN Get(m.time_patterns[station], time_bin, RInt(1))
    ELSE RInt(1)

\* [d for d in days if d in day_factors]
RECURSIVE Available(_, _)
Available(days, day_factors) ==
    IF days = << >> THEN << >>
    ELSE IF In(Head(days), day_factors)
         THEN << Head(days) >> \o Available(Tail(days), day_factors)
         ELSE Available(Tail(days), day_factors)

\* sum(day_factors.get(d, 1.0) for d in available_days) / len(available_days)
MeanFactor(day_factors, available_days) ==
    RDivInt(RSum([k \in 1..Len(available_days) |->
                    Get(day_factors, available_days[k], RInt(1))]),
            Len(available_days))

\* a variant that divides by the number of days of the list, present or not
MeanFactor_AllDays(day_factors, days) ==
    RDivInt(RSum([k \in 1..Len(Available(days, day_factors)) |->
                    day_factors[Available(days, day_factors)[k]]]),
            Len(days))

\* lines 150-152 and 156-158
AggregateFactor(day_factors, days) ==
    LET available_days == Available(days, day_factors)
    IN  IF available_days # << >>
        THEN MeanFactor(day_factors, available_days)
        ELSE RInt(1)

DayFactor_AllDays(m, station, day_of_week, is_aggregate) ==
    IF ~In(station, Section(m, "day_of_week_factors")) THEN RInt(1)
    ELSE LET day_factors == m.day_of_week_factors[station]
         IN  IF is_aggregate
             THEN IF day_of_week = "Weekday"
                  THEN MeanFactor_AllDays(day_factors, weekdays)
                  ELSE IF day_of_week = "Weekend"
                       THEN MeanFactor_AllDays(day_factors, weekend_days)
                       ELSE RInt(1)
             ELSE Get(day_factors, day_of_week, RInt(1))

\* lines 141-164
DayFactor(m, station, day_of_week, is_aggregate) ==
    IF ~In(station, Section(m, "day_of_week_factors")) THEN RInt(1)
    ELSE LET day_factors == m.day_of_week_factors[station]
         IN  IF is_aggregate
             THEN IF day_of_week = "Weekday"
                  THEN AggregateFactor(day_factors, weekdays)
                  ELSE IF day_of_week = "Weekend"
                       THEN AggregateFactor(day_factors, weekend_days)
                       ELSE RInt(1)
             ELSE Get(day_factors, day_of_week, RInt(1))

\* a variant without the "not is_aggregate" guard
SpecificPrediction_AnyDay(m, station, day_of_week, is_aggregate, time_bin) ==
    IF /\ In(station, Section(m, "by_day_and_time"))
       /\ In(day_of_week, m.by_day_and_time[station])
       /\ In(time_bin, m.by_day_and_time[station][day_of_week])
    THEN [hit |-> TRUE, value |-> m.by_day_and_time[station][day_of_week][time_bin]]
    ELSE [hit |-> FALSE, value |-> RInt(0)]

\* lines 167-172: specific_prediction, None when hit is FALSE
SpecificPrediction(m, station, day_of_week, is_aggregate, time_bin) ==
    IF /\ In(station, Section(m, "by_day_and_time"))
       /\ ~is_aggregate
       /\ In(day_of_week, m.by_day_and_time[station])
       /\ In(time_bin, m.by_day_and_time[station][day_of_week])
    THEN [hit |-> TRUE, value |-> m.by_day_and_time[station][day_of_week][time_bin]]
    ELSE [hit |-> FALSE, value |-> RInt(0)]

\* a variant whose morning rush excludes hour 9
Overlay_RushEndsEarly(hour) ==
    IF 0 <= hour /\ hour < 5 THEN RDivInt(RMul(R(1, 2), RInt(hour + 1)), 5)
    ELSE IF 7 <= hour /\ hour < 9 THEN R(3, 2)
    ELSE IF 16 <= hour /\ hour <= 19 THEN R(7, 5)
    ELSE IF 22 <= hour /\ hour < 24 THEN R(7, 10)
    ELSE RInt(1)

\* lines 182-192: the factor the if/elif chain multiplies prediction by
Overlay(hour) ==
    IF 0 <= hour /\ hour < 5 THEN RDivInt(RMul(R(1, 2), RInt(hour + 1)), 5)
    ELSE IF 7 <= hour /\ hour <= 9 THEN R(3, 2)
    ELSE IF 16 <= hour /\ hour <= 19 THEN R(7, 5)
    ELSE IF 22 <= hour /\ hour < 24 THEN R(7, 10)
    ELSE RInt(1)

\* a variant without the floor
Floor10_Dropped(prediction) == prediction

\* line 199: max(10, prediction)
Floor10(prediction) == IF RLess(prediction, RInt(10)) THEN RInt(10) ELSE prediction

\* lines 126-202, the body of the try: exc when a statement of it raises
StationPrediction(station, m, p, draw) ==
    IF ~In(station, Section(m, "by_station"))
    THEN [exc |-> FALSE,
          row |-> Row(station, Hundredths(draw.randint), "absent",
                      RInt(draw.randint), RInt(0), RInt(0), RInt(0))]
    ELSE LET station_data == m.by_station[station]
         IN  IF ~station_data.isdict
             THEN [exc |-> TRUE,
                   row |-> Row(station, 0, "raised", RInt(0), RInt(0), RInt(0), RInt(0))]
             ELSE
    LET base_ridership == IF station_data.has_avg
                          THEN station_data.avg_ridership ELSE RInt(500)
        time_factor == TimeFactor(m, station, p.time_bin)
        day_factor == DayFactor(m, station, p.day_of_week, p.is_aggregate)
        specific == SpecificPrediction(m, station, p.day_of_week,
                                       p.is_aggregate, p.time_bin)
        prediction == IF specific.hit THEN specific.value
                      ELSE RMul(RMul(base_ridership, day_factor), time_factor)
        adjusted == RMul(prediction, Overlay(p.hour))
        varied == RMul(adjusted, draw.variation)
    IN  [exc |-> FALSE,
         row |-> Row(station, Round2(Floor10(varied)),
                     IF specific.hit THEN "specific" ELSE "factor",
                     draw.variation, prediction, Overlay(p.hour), varied)]

\* a variant without the per-station handler
TryStation_NoCatch(station, m, p, draw) == StationPrediction(station, m, p, draw)

\* lines 124 and 204-206: the per-station try/except
TryStation(station, m, p, draw) ==
    LET r == StationPrediction(station, m, p, draw)
    IN  IF r.exc
        THEN [exc |-> FALSE,
              row |-> Row(station, Hundredths(draw.randint), "error",
                          RInt(draw.randint), RInt(0), RInt(0), RInt(0))]
        ELSE r

-----------------------------------------------------------------------------
(* Lines 222-243: generate_fallback_predictions.                           *)

\* lines 229-235
FallbackMultiplier(current_hour) ==
    IF 7 <= current_hour /\ current_hour <= 9 THEN R(5, 2)
    ELSE IF 16 <= current_hour /\ current_hour <= 19 THEN R(23, 10)
    ELSE IF current_hour >= 22 \/ current_hour <= 5 THEN R(2, 5)
    ELSE RInt(1)

\* lines 240-241
FallbackRow(station, base, mult) ==
    Row(station, Round2(RMul(RInt(base), mult)), "degraded",
        RInt(base), RInt(0), mult, RInt(0))

-----------------------------------------------------------------------------
(* The state machine of one process: the import of the module, then calls  *)
(* of ridership(), one at a time, while the wall clock advances and the    *)
(* offline builder may replace the model file.  U is the universe the      *)
(* environment draws from: [files, model_files, clocks, times, days,       *)
(* variations, randints, bases].                                           *)

NoParse == [ok |-> FALSE, hour |-> 0, minute |-> 0, time_bin |-> 0,
            day_of_week |-> "", is_aggregate |-> FALSE]
NoModels == [isdict |-> FALSE, truthy |-> FALSE, has |-> {}]
NoResult == [kind |-> "none", rows |-> << >>, mode |-> "",
             for_time |-> << >>, for_day |-> "", generated_at |-> << >>]
NoPrev == [valid |-> FALSE, time_str |-> << >>, day_str |-> << >>,
           model_file |-> [exists |-> FALSE, loads |-> FALSE, models |-> NoModels],
           result |-> NoResult]

Init(U) ==
    /\ stops_file \in U.files
    /\ manhattan_unique = Unique(StopNames(stops_file))
    /\ model_file \in U.model_files
    /\ now \in U.clocks
    /\ pc = "idle"
    /\ time_str = << >>
    /\ day_str = << >>
    /\ parsed = NoParse
    /\ models = NoModels
    /\ multiplier = RInt(0)
    /\ ridership_pred = << >>
    /\ i = 0
    /\ result = NoResult
    /\ prev = NoPrev
    /\ FetchIdle
    /\ GenIdle
    /\ TogIdle

\* the call of generate_fallback_predictions(): lines 226-238
EnterFallback ==
    /\ pc' = "fallback"
    /\ multiplier' = FallbackMultiplier(now.hour)
    /\ ridership_pred' = << >>
    /\ i' = 1
    /\ result' = result

\* an exception reaching the outermost handler, lines 218-220
Escalate ==
    IF OuterExcept = "fallback"
    THEN EnterFallback
    ELSE /\ pc' = "done"
         /\ result' = [NoResult EXCEPT !.kind = "raised"]
         /\ UNCHANGED << multiplier, ridership_pred, i >>

\* ridership(t, d) up to the start of the station loop: lines 52-121
Call(U) ==
    /\ pc = "idle"
    /\ \E t \in U.times, d \in U.days :
        LET pt == ParseTime(DefaultTime(t, now), now)
            day_of_week == NormalizeDay(DefaultDay(d, now))
            loaded == LoadModel(model_file)
        IN  /\ time_str' = t
            /\ day_str' = d
            /\ parsed' = [ok |-> pt.ok, hour |-> pt.hour, minute |-> pt.minute,
                          time_bin |-> pt.time_bin, day_of_week |-> day_of_week,
                          is_aggregate |-> IsAggregate(day_of_week)]
            /\ IF ~FindModel(model_file)
               THEN EnterFallback /\ models' = models
               ELSE IF loaded.exc
               THEN Escalate /\ models' = models
               ELSE IF InvalidModel(loaded.models)
               THEN EnterFallback /\ models' = loaded.models
               ELSE /\ models' = loaded.models
                    /\ pc' = "loop"
                    /\ ridership_pred' = << >>
                    /\ i' = 1
                    /\ UNCHANGED << multiplier, result >>
    /\ UNCHANGED << stops_file, manhattan_unique, model_file, now, prev >>
    /\ UNCHANGED notPred

\* one iteration of "for station in manhattan_unique": lines 123-206
PredictStation(U) ==
    /\ pc = "loop"
    /\ i <= Len(manhattan_unique)
    /\ \E v \in U.variations, n \in U.randints :
        LET r == TryStation(manhattan_unique[i], models, parsed,
                            [variation |-> v, randint |-> n])
        IN  IF r.exc
            THEN Escalate
            ELSE /\ ridership_pred' = DictSet(ridership_pred, r.row)
                 /\ i' = i + 1
                 /\ UNCHANGED << pc, multiplier, result >>
    /\ UNCHANGED << stops_file, manhattan_unique, model_file, now, time_str,
                    day_str, parsed, models, prev >>
    /\ UNCHANGED notPred

\* lines 208-216: the frame and its debugging columns
Finish ==
    /\ pc = "loop"
    /\ i > Len(manhattan_unique)
    /\ pc' = "done"
    /\ result' = [kind |-> "table", rows |-> ridership_pred, mode |-> "model",
                  for_time |-> FmtHM(parsed.hour, parsed.minute),
                  for_day |-> parsed.day_of_week,
                  generated_at |-> FmtHM(now.hour, now.minute)]
    /\ UNCHANGED << stops_file, manhattan_unique, model_file, now, time_str,
                    day_str, parsed, models, multiplier, ridership_pred, i, prev >>
    /\ UNCHANGED notPred

\* one iteration of the loop of generate_fallback_predictions: lines 239-241
FallbackStation(U) ==
    /\ pc = "fallback"
    /\ i <= Len(manhattan_unique)
    /\ \E base \in U.bases :
        ridership_pred' =
            DictSet(ridership_pred, FallbackRow(manhattan_unique[i], base, multiplier))
    /\ i' = i + 1
    /\ UNCHANGED << stops_file, manhattan_unique, model_file, now, pc, time_str,
                    day_str, parsed, models, multiplier, result, prev >>
    /\ UNCHANGED notPred

\* line 243, returned through line 109, 118 or 220
FallbackReturn ==
    /\ pc = "fallback"
    /\ i > Len(manhattan_unique)
    /\ pc' = "done"
    /\ result' = [NoResult EXCEPT !.kind = "table", !.rows = ridership_pred,
                                  !.mode = "degraded"]
    /\ UNCHANGED << stops_file, manhattan_unique, model_file, now, time_str,
                    day_str, parsed, models, multiplier, ridership_pred, i, prev >>
    /\ UNCHANGED notPred

\* the caller has the result; keep is TRUE for a caller that compares this
\* call with its next one
Return(keep) ==
    /\ pc = "done"
    /\ pc' = "idle"
    /\ prev' = IF keep
               THEN [valid |-> TRUE, time_str |-> time_str, day_str |-> day_str,
                     model_file |-> model_file, result |-> result]
               ELSE prev
    /\ time_str' = << >>
    /\ day_str' = << >>
    /\ parsed' = NoParse
    /\ models' = NoModels
    /\ multiplier' = RInt(0)
    /\ ridership_pred' = << >>
    /\ i' = 0
    /\ result' = NoResult
    /\ UNCHANGED << stops_file, manhattan_unique, model_file, now >>
    /\ UNCHANGED notPred

\* the wall clock moves on
Tick(U) ==
    /\ now' \in U.clocks \ {now}
    /\ UNCHANGED << stops_file, manhattan_unique, model_file, pc, time_str, day_str,
                    parsed, models, multiplier, ridership_pred, i, result, prev >>
    /\ UNCHANGED notPred

\* the model file is written, removed or damaged between two calls (a call
\* reads it once, in Call, so a change during the rest of a call is not seen
\* by that call)
ReplaceModel(U) ==
    /\ pc = "idle"
    /\ model_file' \in U.model_files \ {model_file}
    /\ UNCHANGED << stops_file, manhattan_unique, now, pc, time_str, day_str,
                    parsed, models, multiplier, ridership_pred, i, result, prev >>
    /\ UNCHANGED notPred

-----------------------------------------------------------------------------
(* What the environment draws from.                                        *)

MaxStops == 3
MaxHour == 25

StationNames == {"A", "B"}

SeqsUpTo(S, n) == UNION {[1..k -> S] : k \in 0..n}

MissingFile == [exists |-> FALSE, names |-> << >>]
StopsFiles(n) ==
    {MissingFile} \cup {[exists |-> TRUE, names |-> s] : s \in SeqsUpTo(StationNames, n)}
OneStop == {[exists |-> TRUE, names |-> << "A" >>]}

\* wall-clock instants: one in the small hours, one in each rush, one at noon
Clock(h, m, wd) == [hour |-> h, minute |-> m, weekday |-> wd]
Clocks == {Clock(3, 15, "Sunday"), Clock(8, 30, "Monday"), Clock(12, 0, "Saturday")}

\* model contents, station by station
Data(avg) == [isdict |-> TRUE, has_avg |-> TRUE, avg_ridership |-> avg]
DataNoAvg == [isdict |-> TRUE, has_avg |-> FALSE, avg_ridership |-> RInt(0)]
DataNotADict == [isdict |-> FALSE, has_avg |-> FALSE, avg_ridership |-> RInt(0)]

AllDays ==
    ("Monday" :> R(6, 5)) @@ ("Tuesday" :> RInt(1)) @@ ("Wednesday" :> R(11, 10)) @@
    ("Thursday" :> R(9, 10)) @@ ("Friday" :> R(13, 10)) @@
    ("Saturday" :> R(3, 5)) @@ ("Sunday" :> R(1, 2))
SomeDays == ("Monday" :> R(6, 5)) @@ ("Tuesday" :> RInt(1)) @@ ("Sunday" :> R(1, 2))

Pattern == (TimeBin(8, 30) :> R(7, 5)) @@ (TimeBin(22, 30) :> R(4, 5))

CellBins == {TimeBin(h, 30) : h \in 0..23}
Cells ==
    ("Monday" :> [b \in CellBins |-> RInt(300)]) @@
    ("Sunday" :> (TimeBin(3, 15) :> RInt(5))) @@
    ("Weekday" :> [b \in CellBins |-> RInt(77)]) @@
    ("Weekend" :> [b \in CellBins |-> RInt(78)]) @@
    ("All" :> [b \in CellBins |-> RInt(79)])

Profile(has, data, pattern, days, cells) ==
    [has |-> has, data |-> data, pattern |-> pattern, days |-> days, cells |-> cells]

ProfAbsent == Profile({}, DataNoAvg, EmptyDict, EmptyDict, EmptyDict)
ProfExample ==
    Profile({"by_station", "time_patterns", "day_of_week_factors"},
            Data(RInt(500)), Pattern, AllDays, EmptyDict)
ProfCells == Profile(SectionNames, Data(RInt(500)), Pattern, AllDays, Cells)
ProfSomeDays ==
    Profile({"by_station", "day_of_week_factors"}, Data(RInt(40)), EmptyDict,
            SomeDays, EmptyDict)
ProfNoDays ==
    Profile({"by_station", "time_patterns", "day_of_week_factors"},
            Data(RInt(500)), Pattern, EmptyDict, EmptyDict)
ProfBare == Profile({"by_station"}, DataNoAvg, EmptyDict, EmptyDict, EmptyDict)
ProfLow == Profile({"by_station", "day_of_week_factors"}, Data(RInt(8)), EmptyDict,
                   AllDays, EmptyDict)
ProfNegative == Profile({"by_station", "time_patterns"}, Data(RInt(-50)), Pattern,
                        EmptyDict, EmptyDict)
ProfBad == Profile(SectionNames, DataNotADict, Pattern, AllDays, Cells)
ProfOrphan ==
    Profile({"time_patterns", "day_of_week_factors", "by_day_and_time"},
            DataNoAvg, Pattern, AllDays, Cells)

Profiles == {ProfAbsent, ProfExample, ProfCells, ProfSomeDays, ProfNoDays, ProfBare,
             ProfLow, ProfNegative, ProfBad, ProfOrphan}

Keyed(f, section) == {s \in DOMAIN f : section \in f[s].has}

\* the dict the builder pickles, restricted to the sections in secs
ModelOf(f, secs) ==
    [isdict |-> TRUE, truthy |-> TRUE, has |-> secs,
     by_station |-> [s \in Keyed(f, "by_station") |-> f[s].data],
     time_patterns |-> [s \in Keyed(f, "time_patterns") |-> f[s].pattern],
     day_of_week_factors |-> [s \in Keyed(f, "day_of_week_factors") |-> f[s].days],
     by_day_and_time |-> [s \in Keyed(f, "by_day_and_time") |-> f[s].cells]]

OnDisk(m) == [exists |-> TRUE, loads |-> TRUE, models |-> m]
NoFile == [exists |-> FALSE, loads |-> FALSE, models |-> NoModels]
CorruptFile == [exists |-> TRUE, loads |-> FALSE, models |-> NoModels]
EmptyDictFile == OnDisk([isdict |-> TRUE, truthy |-> FALSE, has |-> {}])
NotADictFile == OnDisk([isdict |-> FALSE, truthy |-> TRUE, has |-> {}])

AB(pa, pb) == ("A" :> pa) @@ ("B" :> pb)

MainModelFiles ==
    {NoFile, CorruptFile, EmptyDictFile, NotADictFile,
     OnDisk(ModelOf(AB(ProfExample, ProfAbsent), SectionNames)),
     OnDisk(ModelOf(AB(ProfCells, ProfBad), SectionNames)),
     OnDisk(ModelOf(AB(ProfBad, ProfLow), SectionNames)),
     OnDisk(ModelOf(AB(ProfNegative, ProfCells), {"by_station", "by_day_and_time"}))}

StationModelFiles ==
    {NoFile} \cup {OnDisk(ModelOf(AB(pa, ProfAbsent), SectionNames)) : pa \in Profiles}

\* query strings
t_abc == << "a", "b", "c" >>
t_noon == << "1", "2" >>
t_unpadded == << "8", ":", "5" >>
t_blank == << " ", "8", ":", "3", "0", " " >>
t_plus == << "+", "8", ":", "3", "0" >>
t_minus == << "-", "1", ":", "3", "0" >>
t_seconds == << "0", "8", ":", "3", "0", ":", "0", "0" >>
t_colon == << ":" >>
t_empty == << >>

d_funday == << "f", "u", "n", "d", "a", "y" >>
d_mon == << "m", "o", "n" >>
d_padded == << " ", "m", "o", "n", "d", "a", "y" >>
d_mixed == << "S", "a", "T", "u", "R", "d", "A", "y" >>

UpperChar(c) ==
    IF \E k \in 1..Len(LowerCase) : LowerCase[k] = c
    THEN UpperCase[CHOOSE k \in 1..Len(LowerCase) : LowerCase[k] = c]
    ELSE c
Upper(s) == [k \in 1..Len(s) |-> UpperChar(s[k])]
Capitalize(s) == [k \in 1..Len(s) |-> IF k = 1 THEN UpperChar(s[k]) ELSE s[k]]

DayKeys == DOMAIN day_map

MainU ==
    [files |-> StopsFiles(MaxStops), model_files |-> MainModelFiles, clocks |-> Clocks,
     times |-> {FmtHM(8, 30), FmtHM(3, 15), FmtHM(MaxHour, 0), t_abc, None},
     days |-> {k_monday, Capitalize(k_weekday), d_funday, None},
     variations |-> {R(9, 10), RInt(1), R(11, 10)},
     randints |-> {100, 999},
     bases |-> {200, 799}]

StationU ==
    [files |-> OneStop, model_files |-> StationModelFiles,
     clocks |-> {Clock(3, 15, "Sunday"), Clock(12, 0, "Saturday")},
     times |-> {FmtHM(h, 30) : h \in 0..MaxHour} \cup {FmtHM(3, 15), FmtHM(12, 0)},
     days |-> {k_monday, k_tuesday, k_saturday, k_sunday, k_weekday, k_weekends,
               k_all, d_funday},
     variations |-> {RInt(1), R(11, 10)},
     randints |-> {100},
     bases |-> {200}]

ParseU ==
    [files |-> OneStop,
     model_files |-> {NoFile, OnDisk(ModelOf(AB(ProfExample, ProfAbsent), SectionNames))},
     clocks |-> {Clock(3, 15, "Sunday"), Clock(12, 0, "Saturday")},
     times |-> {FmtHM(h, m) : h \in {0, 23, 24, MaxHour}, m \in {0, 59, 60}}
               \cup {t_abc, t_noon, t_unpadded, t_blank, t_plus, t_minus, t_seconds,
                     t_colon, t_empty, None},
     days |-> DayKeys \cup {Upper(k) : k \in DayKeys} \cup {Capitalize(k) : k \in DayKeys}
              \cup {d_funday, d_mon, d_padded, d_mixed, << >>, None},
     variations |-> {RInt(1)},
     randints |-> {100},
     bases |-> {200}]

PairU ==
    [files |-> OneStop,
     model_files |-> {NoFile, OnDisk(ModelOf(AB(ProfExample, ProfAbsent), SectionNames))},
     clocks |-> Clocks,
     times |-> {FmtHM(8, 30), FmtHM(12, 0)},
     days |-> {k_monday},
     variations |-> {RInt(1), R(11, 10)},
     randints |-> {100},
     bases |-> {200, 799}]

Next(U, keep) ==
    \/ Call(U)
    \/ PredictStation(U)
    \/ Finish
    \/ FallbackStation(U)
    \/ FallbackReturn
    \/ Return(keep)
    \/ Tick(U)
    \/ ReplaceModel(U)

\* the process with registries of every shape and the model file in every condition
MainNext == Next(MainU, FALSE)
Spec == Init(MainU) /\ [][MainNext]_vars

\* one registered station, every model profile, every hour of the day
StationNext == Next(StationU, FALSE)
SpecStation == Init(StationU) /\ [][StationNext]_vars

\* every shape of the two query strings
ParseNext == Next(ParseU, FALSE)
SpecParse == Init(ParseU) /\ [][ParseNext]_vars

\* a caller that makes two calls and compares them
PairNext == Next(PairU, TRUE)
SpecPair == Init(PairU) /\ [][PairNext]_vars

-----------------------------------------------------------------------------
(* Properties of the predictor.                                            *)

\* the rows a caller can see: those of the dict being filled and of the result
VisibleRows == {ridership_pred[k] : k \in 1..Len(ridership_pred)}
                 \cup {result.rows[k] : k \in 1..Len(result.rows)}

Registered(name) ==
    \E k \in 1..Len(StopNames(stops_file)) : StopNames(stops_file)[k] = name

\* a row the model computed: its station has a well-formed by_station entry
Computed(row) ==
    /\ pc \in {"loop", "done"}
    /\ In(row.station, Section(models, "by_station"))
    /\ models.by_station[row.station].isdict

\* by_day_and_time[s][d][b] exists
CellExists(m, s, d, b) ==
    /\ In(s, Section(m, "by_day_and_time"))
    /\ In(d, m.by_day_and_time[s])
    /\ In(b, m.by_day_and_time[s][d])

\* C1: every row of every call, on the model path, the absent-station path, the
\* per-station exception path and the degraded path, names a station of the
\* registry and carries ridership_pred >= 10.
C1_RegisteredAndAtLeastTen ==
    \A row \in VisibleRows :
        Registered(row.station) /\ row.ridership_pred >= Hundredths(10)

\* C1 witness: a finished model-path table in which the floor raised a computed
\* value below 10 and another station took the exception path.
C1_Witness ==
    /\ pc = "done"
    /\ result.mode = "model"
    /\ \E row \in VisibleRows :
          /\ row.branch = "factor"
          /\ RLess(row.pre_floor, RInt(10))
          /\ row.ridership_pred = Hundredths(10)
    /\ \E row \in VisibleRows : row.branch = "error"

\* C2: for a non-aggregate day, a station of by_station whose cell
\* by_day_and_time[s][d][b] exists gets, with the jitter draw 1.0, exactly that
\* cell value before the floor and the rounding, at every hour.
C2_SpecificCellExact ==
    \A row \in VisibleRows :
        ( /\ Computed(row)
          /\ ~parsed.is_aggregate
          /\ CellExists(models, row.station, parsed.day_of_week, parsed.time_bin)
          /\ row.draw = RInt(1) )
        => row.pre_floor =
             models.by_day_and_time[row.station][parsed.day_of_week][parsed.time_bin]

\* C3: when the normalized day is Weekday, Weekend or All, no station's
\* prediction is taken from by_day_and_time, even when a cell exists under that
\* literal key.
C3_AggregateNeverSpecific ==
    \A row \in VisibleRows :
        (Computed(row) /\ parsed.day_of_week \in {"Weekday", "Weekend", "All"})
        => /\ row.branch = "factor"
           /\ CellExists(models, row.station, parsed.day_of_week, parsed.time_bin)
              => row.pre_overlay #
                   models.by_day_and_time[row.station][parsed.day_of_week][parsed.time_bin]

\* C3 witness: a finished Weekend query whose station has a cell under the
\* literal key "Weekend" at the queried bin.
C3_Witness ==
    /\ pc = "done"
    /\ parsed.day_of_week = "Weekend"
    /\ \E row \in VisibleRows :
          /\ Computed(row)
          /\ CellExists(models, row.station, "Weekend", parsed.time_bin)
          /\ row.branch = "factor"

RECURSIVE SumOver(_, _)
SumOver(S, f) ==
    IF S = {} THEN RInt(0)
    ELSE LET x == CHOOSE y \in S : TRUE
         IN  RAdd(f[x], SumOver(S \ {x}, f))

MeanOfPresent(factors, days) ==
    LET present == {d \in days : d \in DOMAIN factors}
    IN  IF present = {} THEN RInt(1)
        ELSE RDivInt(SumOver(present, factors), Cardinality(present))

ExpectedDayFactor(m, s, day) ==
    LET factors == IF "day_of_week_factors" \in m.has /\ s \in DOMAIN m.day_of_week_factors
                   THEN m.day_of_week_factors[s] ELSE EmptyDict
    IN  CASE day = "Weekday" ->
               MeanOfPresent(factors, {"Monday", "Tuesday", "Wednesday", "Thursday", "Friday"})
          [] day = "Weekend" -> MeanOfPresent(factors, {"Saturday", "Sunday"})
          [] day = "All" -> RInt(1)
          [] OTHER -> IF day \in DOMAIN factors THEN factors[day] ELSE RInt(1)

ExpectedTimeFactor(m, s, b) ==
    IF "time_patterns" \in m.has /\ s \in DOMAIN m.time_patterns
       /\ b \in DOMAIN m.time_patterns[s]
    THEN m.time_patterns[s][b] ELSE RInt(1)

\* no specific cell applies: the day is an aggregate or the cell does not exist
NoCellApplies(row) ==
    \/ parsed.day_of_week \in {"Weekday", "Weekend", "All"}
    \/ ~CellExists(models, row.station, parsed.day_of_week, parsed.time_bin)

\* C4: when no specific cell applies, the pre-overlay prediction of a station
\* with an avg_ridership is avg_ridership * day_factor * time_factor, with the
\* time factor of the bin or 1.0, and the day factor of the day or 1.0, the mean
\* of the present Monday..Friday factors (1.0 when none) for Weekday, the mean of
\* the present Saturday, Sunday factors (1.0 when none) for Weekend, 1.0 for All.
C4_FactorProduct ==
    \A row \in VisibleRows :
        (Computed(row) /\ NoCellApplies(row) /\ models.by_station[row.station].has_avg)
        => row.pre_overlay =
             RMul(RMul(models.by_station[row.station].avg_ridership,
                       ExpectedDayFactor(models, row.station, parsed.day_of_week)),
                  ExpectedTimeFactor(models, row.station, parsed.time_bin))

\* C4 witness: a finished Weekday query for a station with only Monday and
\* Tuesday among its weekday factors: 40 * mean(1.2, 1.0) = 44.
C4_Witness ==
    /\ pc = "done"
    /\ parsed.day_of_week = "Weekday"
    /\ \E row \in VisibleRows :
          /\ Computed(row)
          /\ In(row.station, Section(models, "day_of_week_factors"))
          /\ models.day_of_week_factors[row.station] = SomeDays
          /\ row.pre_overlay = RInt(44)

ExpectedOverlay(hour) ==
    CASE hour \in 0..4 -> R(hour + 1, 10)
      [] hour \in 7..9 -> R(3, 2)
      [] hour \in 16..19 -> R(7, 5)
      [] hour \in 22..23 -> R(7, 10)
      [] OTHER -> RInt(1)

ExpectedFloor(x) == IF x.n < 10 * x.d THEN RInt(10) ELSE x

\* C5: on the factor-product branch the overlay multiplier is the function of
\* the query hour 0.5*(hour+1)/5 on 0..4, 1.5 on 7..9, 1.4 on 16..19, 0.7 on
\* 22..23 and 1 elsewhere, and with the jitter draw 1.0 the result is
\* round2(max(10, factor_product * multiplier)).
C5_OverlayByHour ==
    \A row \in VisibleRows :
        (Computed(row) /\ NoCellApplies(row))
        => /\ row.overlay = ExpectedOverlay(parsed.hour)
           /\ row.draw = RInt(1)
              => row.ridership_pred =
                   Round2(ExpectedFloor(RMul(row.pre_overlay, ExpectedOverlay(parsed.hour))))

\* C5 witness: 08:30 on monday with avg 500, Monday factor 1.2, bin-51 factor
\* 1.4 and jitter 1.0 gives 1260.00.
C5_Witness ==
    /\ pc = "done"
    /\ time_str = << "0", "8", ":", "3", "0" >>
    /\ parsed.day_of_week = "Monday"
    /\ parsed.time_bin = 51
    /\ \E row \in VisibleRows :
          /\ Computed(row)
          /\ NoCellApplies(row)
          /\ models.by_station[row.station].avg_ridership = RInt(500)
          /\ row.pre_overlay = RInt(840)
          /\ row.draw = RInt(1)
          /\ row.ridership_pred = Hundredths(1260)

\* C6: for every time_str accepted as 'H:M' the derived time bin is an integer
\* in 0..143, with 00:00 giving 0 and 23:59 giving 143.
C6_TimeBinInRange ==
    (pc # "idle" /\ time_str # None /\ parsed.ok)
    => /\ parsed.time_bin \in 0..143
       /\ time_str = << "0", "0", ":", "0", "0" >> => parsed.time_bin = 0
       /\ time_str = << "2", "3", ":", "5", "9" >> => parsed.time_bin = 143

SameLetter(a, b) ==
    \/ a = b
    \/ \E k \in 1..Len(UpperCase) : {a, b} = {UpperCase[k], LowerCase[k]}

SameIgnoringCase(a, b) ==
    Len(a) = Len(b) /\ \A k \in 1..Len(a) : SameLetter(a[k], b[k])

ExpectedDay ==
    << << k_monday, "Monday" >>, << k_tuesday, "Tuesday" >>,
       << k_wednesday, "Wednesday" >>, << k_thursday, "Thursday" >>,
       << k_friday, "Friday" >>, << k_saturday, "Saturday" >>,
       << k_sunday, "Sunday" >>, << k_weekday, "Weekday" >>,
       << k_weekdays, "Weekday" >>, << k_weekend, "Weekend" >>,
       << k_weekends, "Weekend" >>, << k_all, "All" >> >>

\* C7: day normalization is case-insensitive and total: a string that equals
\* one of monday..sunday, weekday(s), weekend(s), all up to letter case maps to
\* that entry's day, every other string maps to Weekday, and is_aggregate is
\* true exactly for Weekday, Weekend and All.
C7_DayNormalization ==
    (pc # "idle" /\ day_str # None)
    => /\ \A k \in 1..Len(ExpectedDay) :
             SameIgnoringCase(day_str, ExpectedDay[k][1])
             => parsed.day_of_week = ExpectedDay[k][2]
       /\ (\A k \in 1..Len(ExpectedDay) : ~SameIgnoringCase(day_str, ExpectedDay[k][1]))
          => parsed.day_of_week = "Weekday"
       /\ parsed.is_aggregate <=> parsed.day_of_week \in {"Weekday", "Weekend", "All"}

\* C7 witness: a call with the mixed-case string "SaTuRdAy" normalized to
\* Saturday, not an aggregate.
C7_Witness ==
    /\ pc # "idle"
    /\ day_str = << "S", "a", "T", "u", "R", "d", "A", "y" >>
    /\ parsed.day_of_week = "Saturday"
    /\ ~parsed.is_aggregate

FirstIndex(names, x) == CHOOSE k \in 1..Len(names) :
                            names[k] = x /\ \A j \in 1..(k - 1) : names[j] # x

\* C8: the table of a finished call, on the model path and on the degraded
\* path, has exactly one row per distinct name of the registry, in the order of
\* each name's first appearance in the registry file.
C8_OneRowPerStationInOrder ==
    result.kind = "table"
    => LET names == StopNames(stops_file)
           rows == result.rows
       IN  /\ {rows[k].station : k \in 1..Len(rows)} = {names[k] : k \in 1..Len(names)}
           /\ \A j, k \in 1..Len(rows) :
                 j < k => /\ rows[j].station # rows[k].station
                          /\ FirstIndex(names, rows[j].station)
                               < FirstIndex(names, rows[k].station)

\* C8 witness: a finished model-path table of two rows for a registry file
\* that names its first station again after the second one.
C8_Witness ==
    /\ pc = "done"
    /\ result.kind = "table"
    /\ result.mode = "model"
    /\ stops_file.exists
    /\ Len(stops_file.names) = 3
    /\ stops_file.names[1] = stops_file.names[3]
    /\ stops_file.names[1] # stops_file.names[2]
    /\ Len(result.rows) = 2

\* the model file loads into a non-empty dict
Usable(file) == file.exists /\ file.loads /\ file.models.truthy /\ file.models.isdict

\* C9: ridership() never raises: whatever the arguments and the condition of
\* the model file, a finished call hands back a table with one prediction for
\* each registered station; when the model is usable the table is the model's,
\* a station whose lookup fails gets a fallback draw and every other station of
\* by_station keeps its model-based prediction.
C9_NeverRaises ==
    /\ result.kind # "raised"
    /\ pc = "done"
       => /\ result.kind = "table"
          /\ {result.rows[k].station : k \in 1..Len(result.rows)}
               = {StopNames(stops_file)[k] : k \in 1..Len(StopNames(stops_file))}
          /\ Usable(model_file)
             => /\ result.mode = "model"
                /\ \A k \in 1..Len(result.rows) :
                      LET row == result.rows[k]
                          by_station == Section(model_file.models, "by_station")
                      IN  In(row.station, by_station)
                          => IF by_station[row.station].isdict
                             THEN row.branch \in {"factor", "specific"}
                             ELSE /\ row.branch = "error"
                                  /\ row.ridership_pred \in
                                       {Hundredths(n) : n \in MainU.randints}

\* C9 witness: a finished call on a usable model in which one station's lookup
\* failed and another station got its model-based prediction.
C9_Witness ==
    /\ pc = "done"
    /\ Usable(model_file)
    /\ \E row \in VisibleRows : row.branch = "error"
    /\ \E row \in VisibleRows : row.branch \in {"factor", "specific"}

Pairs(rows) == [k \in 1..Len(rows) |-> << rows[k].station, rows[k].ridership_pred >>]
Draws(rows) == [k \in 1..Len(rows) |-> rows[k].draw]

\* C10: with the random draws fixed and a well-formed time_str, two calls with
\* the same arguments and the same loaded state made at different wall-clock
\* times return the same (station, prediction) pairs, also in degraded mode.
C10_SameArgumentsSamePredictions ==
    ( /\ pc = "done"
      /\ prev.valid
      /\ parsed.ok
      /\ prev.time_str = time_str
      /\ prev.day_str = day_str
      /\ prev.model_file = model_file
      /\ Draws(prev.result.rows) = Draws(result.rows) )
    => Pairs(prev.result.rows) = Pairs(result.rows)

-----------------------------------------------------------------------------
(* The ingestor: fetch_historical_data (ridership_model.py:10-58).         *)
(* A datetime is a number of seconds; a response is what requests.get      *)
(* produced: a transport exception, or a status with a body that parses    *)
(* into rows or does not parse.                                            *)

max_retries == 3
delay_between_retries == 2
Week == 7 * 24 * 60 * 60

Min(a, b) == IF a <= b THEN a ELSE b

\* a variant of BatchEnd that does not stop at end_date
BatchEnd_NoClamp(cur, end_date) == cur + Week

\* line 22
BatchEnd(cur, end_date) == Min(cur + Week, end_date)

\* lines 37-40: the rows taken from a response, or none
Accepted(resp) == resp.raised = FALSE /\ resp.status_code = 200 /\ resp.json

\* the rows of a response to request number req: the server answers with n
\* rows of the requested interval
Rows(req, lo, hi, n) ==
    [j \in 1..n |-> [transit_timestamp |-> Min(lo + j - 1, hi), req |-> req, k |-> j]]

\* variant of LoopExit without the break of line 41
LoopExit_NoBreak(success, att) == att + 1 >= max_retries

\* the for-loop of line 32 ends after this attempt: by the break of line 41
\* or because range(max_retries) is used up
LoopExit(success, att) == success \/ att + 1 >= max_retries

\* lines 44-45 and 48-49: the sleep after a failed attempt
Backoff(success, att) ==
    IF ~success /\ att < max_retries - 1 THEN delay_between_retries ELSE 0

\* lines 10-18
FetchCall(U) ==
    /\ fetch_pc = "idle"
    /\ fetch_args' \in U.fetch_args
    /\ all_data' = << >>
    /\ current_date' = fetch_args'.start_date
    /\ fetch_pc' = "while"
    /\ UNCHANGED << batch_end, attempt, http_log >>
    /\ UNCHANGED notFetch

\* lines 20-30: the loop test and the window of this iteration
BeginWindow ==
    /\ fetch_pc = "while"
    /\ current_date <= fetch_args.end_date
    /\ batch_end' = BatchEnd(current_date, fetch_args.end_date)
    /\ attempt' = 0
    /\ fetch_pc' = "attempt"
    /\ UNCHANGED << fetch_args, current_date, all_data, http_log >>
    /\ UNCHANGED notFetch

\* lines 32-49: one attempt
Attempt(U) ==
    /\ fetch_pc = "attempt"
    /\ \E resp \in U.responses, n \in U.lengths[fetch_args.batch_size] :
        LET success == Accepted(resp)
            req == Len(http_log) + 1
            batch_data == IF success THEN Rows(req, current_date, batch_end, n)
                          ELSE << >>
        IN  /\ (~success => n = fetch_args.batch_size)   \* no body is read
            /\ http_log' = Append(http_log,
                   [lo |-> current_date, hi |-> batch_end,
                    limit |-> fetch_args.batch_size, attempt |-> attempt,
                    response |-> resp, rows |-> batch_data,
                    slept |-> Backoff(success, attempt)])
            /\ all_data' = all_data \o batch_data
            /\ IF LoopExit(success, attempt)
               THEN fetch_pc' = "advance" /\ attempt' = attempt
               ELSE fetch_pc' = "attempt" /\ attempt' = attempt + 1
    /\ UNCHANGED << fetch_args, current_date, batch_end >>
    /\ UNCHANGED notFetch

\* lines 52-55
Advance ==
    /\ fetch_pc = "advance"
    /\ current_date' = batch_end + 1
    /\ fetch_pc' = "while"
    /\ UNCHANGED << fetch_args, batch_end, attempt, all_data, http_log >>
    /\ UNCHANGED notFetch

\* line 58: the frame of all_data, or an empty frame
FetchReturn ==
    /\ fetch_pc = "while"
    /\ current_date > fetch_args.end_date
    /\ fetch_pc' = "returned"
    /\ UNCHANGED << fetch_args, current_date, batch_end, attempt, all_data, http_log >>
    /\ UNCHANGED notFetch

\* the caller has the frame
FetchDone ==
    /\ fetch_pc = "returned"
    /\ fetch_pc' = "idle"
    /\ current_date' = 0
    /\ batch_end' = 0
    /\ attempt' = 0
    /\ all_data' = << >>
    /\ http_log' = << >>
    /\ fetch_args' = [start_date |-> 0, end_date |-> 0, batch_size |-> 0]
    /\ UNCHANGED notFetch

\* the predictor is not running
PredIdle ==
    /\ stops_file = MissingFile
    /\ manhattan_unique = Unique(StopNames(stops_file))
    /\ model_file = NoFile
    /\ now = Clock(0, 0, "Monday")
    /\ pc = "idle"
    /\ time_str = << >>
    /\ day_str = << >>
    /\ parsed = NoParse
    /\ models = NoModels
    /\ multiplier = RInt(0)
    /\ ridership_pred = << >>
    /\ i = 0
    /\ result = NoResult
    /\ prev = NoPrev

MaxWindows == 2
MaxBatch == 2

\* the last second of a range that takes n windows, and the first
RangeEnds == {-1} \cup UNION {{(n - 1) * (Week + 1), n * (Week + 1) - 1} : n \in 1..MaxWindows}

TransportError == [raised |-> TRUE, status_code |-> 0, json |-> FALSE]
Status(code, parses) == [raised |-> FALSE, status_code |-> code, json |-> parses]

FetchU ==
    [fetch_args |-> {[start_date |-> 0, end_date |-> e, batch_size |-> MaxBatch] :
                        e \in RangeEnds},
     responses |-> {TransportError, Status(200, TRUE), Status(200, FALSE),
                    Status(503, FALSE)},
     lengths |-> [limit \in 0..(MaxBatch + 1) |-> {limit - 1, limit} \cap Nat]]

FetchNext ==
    \/ FetchCall(FetchU) \/ BeginWindow \/ Attempt(FetchU) \/ Advance
    \/ FetchReturn \/ FetchDone
FetchInit == FetchIdle /\ PredIdle /\ GenIdle /\ TogIdle
SpecFetch == FetchInit /\ [][FetchNext]_vars

-----------------------------------------------------------------------------
(* Properties of the ingestor.                                             *)

Requests == 1..Len(http_log)
RequestsOf(lo) == {k \in Requests : http_log[k].lo = lo}
Succeeded(k) == Accepted(http_log[k].response)

RECURSIVE RowsOfSuccesses(_)
RowsOfSuccesses(k) ==
    IF k = 0 THEN << >>
    ELSE RowsOfSuccesses(k - 1) \o (IF Succeeded(k) THEN http_log[k].rows ELSE << >>)

\* C11: a window is requested at most max_retries times and never again after
\* a response with status 200 and a body that parses; the rows held are those
\* of the accepted responses, each once and in request order, so a window
\* whose attempts all failed contributes none; a failed attempt that is not
\* the last is followed by a sleep of delay_between_retries and a request for
\* the same window, the last failed attempt by the next window; the call
\* returns after the last window whatever failed.
C11_RetryThenSkip ==
    /\ \A k \in Requests :
        /\ Cardinality(RequestsOf(http_log[k].lo)) <= max_retries
        /\ http_log[k].attempt < max_retries
        /\ \A b \in Requests : (k < b /\ http_log[b].lo = http_log[k].lo) => ~Succeeded(k)
        /\ (~Succeeded(k) /\ http_log[k].attempt < max_retries - 1) =>
              /\ http_log[k].slept = delay_between_retries
              /\ IF k < Len(http_log)
                 THEN /\ http_log[k + 1].lo = http_log[k].lo
                      /\ http_log[k + 1].hi = http_log[k].hi
                      /\ http_log[k + 1].attempt = http_log[k].attempt + 1
                 ELSE fetch_pc = "attempt" /\ current_date = http_log[k].lo
        /\ (Succeeded(k) \/ http_log[k].attempt = max_retries - 1) =>
              /\ http_log[k].slept = 0
              /\ IF k < Len(http_log)
                 THEN http_log[k + 1].lo = http_log[k].hi + 1 /\ http_log[k + 1].attempt = 0
                 ELSE fetch_pc = "attempt" => current_date = http_log[k].hi + 1
    /\ all_data = RowsOfSuccesses(Len(http_log))
    /\ fetch_pc = "returned" => current_date > fetch_args.end_date

\* a call that returned rows although one window failed three times and
\* another succeeded on a retry
C11_Witness ==
    /\ fetch_pc = "returned"
    /\ all_data # << >>
    /\ \E k \in Requests :
        /\ Cardinality(RequestsOf(http_log[k].lo)) = max_retries
        /\ \A b \in RequestsOf(http_log[k].lo) : ~Succeeded(b)
    /\ \E k \in Requests : Succeeded(k) /\ http_log[k].attempt > 0

\* the fetch has left the window of request k
LeftWindow(k) == current_date > http_log[k].hi \/ fetch_pc = "returned"

\* a later request of the same window that resumes after the rows of k
Resumes(k, b) ==
    /\ k < b
    /\ http_log[b].hi = http_log[k].hi
    /\ http_log[b].lo > http_log[k].lo
    /\ http_log[b].lo = http_log[k].rows[Len(http_log[k].rows)].transit_timestamp + 1

\* C12: an accepted response with fewer rows than the limit is the last
\* request of its window; after an accepted response with exactly limit rows
\* the window is not left before a further request of the same window, with a
\* lower bound one second after the last row seen, has been made.
C12_PaginatesFullResponses ==
    \A k \in Requests : Succeeded(k) =>
        IF Len(http_log[k].rows) < http_log[k].limit
        THEN \A b \in Requests : b > k => http_log[b].hi # http_log[k].hi
        ELSE LeftWindow(k) => \E b \in Requests : Resumes(k, b)

-----------------------------------------------------------------------------
(* process_raw_data (ridership_model.py:60-131).                           *)
(* A raw cell of ridership or transfers is [numeric, v]: text that reads   *)
(* as the number v, or text that does not; a timestamp is a number of      *)
(* minutes since a Monday 00:00, or a negative number for text that is not *)
(* a date.  NaN is [nan |-> TRUE].                                         *)

NaN == [nan |-> TRUE, v |-> 0]
Num(v) == [nan |-> FALSE, v |-> v]

\* line 71
RequiredColumns == {"station_complex", "ridership", "transfers", "transit_timestamp"}

\* pd.to_numeric(..., errors="coerce"), lines 93-98
ToNumeric(x) == IF x.numeric THEN Num(x.v) ELSE NaN

\* pd.to_datetime, line 104: raises on text that is not a date
ToDatetime(t) == IF t < 0 THEN [exc |-> TRUE, t |-> 0] ELSE [exc |-> FALSE, t |-> t]

\* line 153 and the day_name() of line 119
days_of_week == << "Monday", "Tuesday", "Wednesday", "Thursday", "Friday",
                  "Saturday", "Sunday" >>
DayOfWeek(t) == days_of_week[((t \div (24 * 60)) % 7) + 1]
Hour(t) == (t % (24 * 60)) \div 60
Minute(t) == t % 60

RECURSIVE Flatten(_)
Flatten(ss) == IF ss = << >> THEN << >> ELSE Head(ss) \o Flatten(Tail(ss))

\* lines 82-84: .str.split("/").explode().reset_index(drop=True), a series
\* numbered 0, 1, 2, ... whose length is the number of sub-names
Exploded(rows) ==
    Flatten([k \in 1..Len(rows) |-> Split(rows[k].station_complex, "/")])

\* a variant of Joined that keeps each row's own first sub-name
Joined_OwnFirstName(rows) ==
    [k \in 1..Len(rows) |->
        [rows[k] EXCEPT !.station_complex = Split(rows[k].station_complex, "/")[1]]]

\* lines 80-85: drop("station_complex").join(series) is a left join on the
\* index: row k of the frame receives entry k of the series
Joined(rows) ==
    LET names == Exploded(rows)
    IN  [k \in 1..Len(rows) |-> [rows[k] EXCEPT !.station_complex = names[k]]]

IsSpace(c) == c = " "

\* the end of the match of \([^)]+\) at s[q], or 0: an opening bracket, one
\* or more characters other than ")", and the first ")" after them
ParenEnd(s, q) ==
    IF q > Len(s) \/ s[q] # "(" THEN 0
    ELSE LET closes == {r \in (q + 1)..Len(s) : s[r] = ")"}
         IN  IF closes = {} THEN 0
             ELSE LET r == CHOOSE x \in closes : \A y \in closes : x <= y
                  IN  IF r >= q + 2 THEN r ELSE 0

\* the first position at or after k that is not a blank
RECURSIVE SkipSpaces(_, _)
SkipSpaces(s, k) == IF k <= Len(s) /\ IsSpace(s[k]) THEN SkipSpaces(s, k + 1) ELSE k

\* line 89: re.sub(r"\s*\([^)]+\)", "", s), scanning from position k
RECURSIVE RemoveParens(_, _)
RemoveParens(s, k) ==
    IF k > Len(s) THEN << >>
    ELSE LET r == ParenEnd(s, SkipSpaces(s, k))
         IN  IF r > 0 THEN RemoveParens(s, r + 1)
             ELSE << s[k] >> \o RemoveParens(s, k + 1)

\* lines 88-90
CleanName(s) == Strip(RemoveParens(s, 1))

\* the order of str: by code point, position by position
Collation == << " ", "(", ")", "/" >> \o Digits \o UpperCase \o LowerCase
CharRank(c) == CHOOSE k \in 1..Len(Collation) : Collation[k] = c
RECURSIVE StrLess(_, _)
StrLess(a, b) ==
    IF b = << >> THEN FALSE
    ELSE IF a = << >> THEN TRUE
    ELSE IF Head(a) = Head(b) THEN StrLess(Tail(a), Tail(b))
    ELSE CharRank(Head(a)) < CharRank(Head(b))

\* the order of the group keys (transit_timestamp, station_complex)
KeyLess(a, b) == a[1] < b[1] \/ (a[1] = b[1] /\ StrLess(a[2], b[2]))

RECURSIVE SortKeys(_)
SortKeys(S) ==
    IF S = {} THEN << >>
    ELSE LET least == CHOOSE a \in S : \A b \in S \ {a} : KeyLess(a, b)
         IN  << least >> \o SortKeys(S \ {least})

\* sum() of a column over the rows at positions P, NaN skipped
RECURSIVE SumAt(_, _, _)
SumAt(rows, col, P) ==
    IF P = {} THEN 0
    ELSE LET k == CHOOSE x \in P : TRUE
         IN  (IF rows[k][col].nan THEN 0 ELSE rows[k][col].v) + SumAt(rows, col, P \ {k})

\* lines 107-111: groupby(["transit_timestamp", "station_complex"]).agg(sum),
\* one row per key, in key order
Consolidated(rows) ==
    LET keys == SortKeys({<< rows[k].transit_timestamp, rows[k].station_complex >> :
                            k \in 1..Len(rows)})
        At(key) == {k \in 1..Len(rows) :
                      << rows[k].transit_timestamp, rows[k].station_complex >> = key}
    IN  [g \in 1..Len(keys) |->
            [transit_timestamp |-> keys[g][1], station_complex |-> keys[g][2],
             ridership |-> SumAt(rows, "ridership", At(keys[g])),
             transfers |-> SumAt(rows, "transfers", At(keys[g]))]]

\* lines 119-124
WithTimeFeatures(row) ==
    [transit_timestamp |-> row.transit_timestamp,
     station_complex |-> row.station_complex,
     ridership |-> row.ridership, transfers |-> row.transfers,
     day_of_week |-> DayOfWeek(row.transit_timestamp),
     hour |-> Hour(row.transit_timestamp),
     minute |-> Minute(row.transit_timestamp),
     time_bin |-> TimeBin(Hour(row.transit_timestamp), Minute(row.transit_timestamp))]

ProcessedColumns ==
    {"transit_timestamp", "station_complex", "ridership", "transfers",
     "day_of_week", "hour", "minute", "time_bin"}

\* lines 79-127, the body of the try
ProcessRows(rows, names) ==
    LET expanded == [k \in 1..Len(rows) |->
                        [Joined(rows)[k] EXCEPT
                            !.station_complex = CleanName(@),
                            !.ridership = ToNumeric(@),
                            !.transfers = ToNumeric(@)]]
        kept == SelectSeq(expanded, LAMBDA r : ~r.ridership.nan)      \* line 101
        IsDate(r) == ~ToDatetime(r.transit_timestamp).exc
        registered == SelectSeq(Consolidated(kept),                  \* lines 114-116
                         LAMBDA r : \E k \in 1..Len(names) : names[k] = r.station_complex)
    IN  IF \E k \in 1..Len(kept) : ~IsDate(kept[k])
        THEN [exc |-> TRUE, frame |-> EmptyFrame]
        ELSE [exc |-> FALSE,
              frame |-> [columns |-> ProcessedColumns,
                         rows |-> [k \in 1..Len(registered) |->
                                      WithTimeFeatures(registered[k])]]]

\* process_raw_data(df_raw, manhattan_stops)
process_raw_data(raw, names) ==
    IF Len(raw.rows) = 0 THEN EmptyFrame                        \* lines 63-65
    ELSE IF ~(RequiredColumns \subseteq raw.columns) THEN EmptyFrame  \* lines 70-76
    ELSE LET r == ProcessRows(raw.rows, Unique(names))
         IN  IF r.exc THEN EmptyFrame ELSE r.frame             \* lines 129-131

-----------------------------------------------------------------------------
(* build_time_of_day_models (ridership_model.py:133-236).                  *)
(* models_dict is a record of dicts keyed by station; the ar_params entry  *)
(* of by_station[s] is kept as a dict of its own, ar_params[s].            *)

min_station_obs == 24
min_day_obs == 12
min_ar_obs == 30
bins_per_day == 144

\* d[k] = v
Put(d, k, v) == [x \in (DOMAIN d) \cup {k} |-> IF x = k THEN v ELSE d[x]]

\* processed_data[processed_data["station_complex"] == station], lines 157, 219
StationRows(rows, station) == SelectSeq(rows, LAMBDA r : r.station_complex = station)

\* station_df[station_df["day_of_week"] == day], lines 171, 201
DayRows(rows, day) == SelectSeq(rows, LAMBDA r : r.day_of_week = day)

RECURSIVE Total(_)
Total(xs) == IF xs = << >> THEN 0 ELSE Head(xs) + Total(Tail(xs))

\* ["ridership"].mean() of a non-empty frame
Mean(rows) ==
    RDivInt(RInt(Total([k \in 1..Len(rows) |-> rows[k].ridership])), Len(rows))

\* x / avg_ridership if avg_ridership > 0 else 1.0
Relative(x, avg) == IF avg.n > 0 THEN R(x.n * avg.d, x.d * avg.n) ELSE RInt(1)

\* groupby("time_bin")["ridership"].mean(), lines 183, 207
BinMeans(rows) ==
    [b \in {rows[k].time_bin : k \in 1..Len(rows)} |->
        Mean(SelectSeq(rows, LAMBDA r : r.time_bin = b))]

\* lines 170-176
DayFactors(srows, avg) ==
    [day \in {days_of_week[k] : k \in 1..7} |->
        IF Len(DayRows(srows, day)) > 0 THEN Relative(Mean(DayRows(srows, day)), avg)
        ELSE RInt(1)]

\* sorted(time_bin_avg.index, key=lambda x: abs(x - time_bin))[0]: the sort is
\* stable over an ascending index, so of two bins equally near the lower wins
Closest(B, bin) ==
    CHOOSE x \in B : \A y \in B :
        Abs(x - bin) < Abs(y - bin) \/ (Abs(x - bin) = Abs(y - bin) /\ x <= y)

\* a variant of TimePatterns that leaves every bin without rows at 1.0
TimePatterns_DefaultOnly(srows, avg) ==
    LET time_bin_avg == BinMeans(srows)
    IN  [bin \in 0..(bins_per_day - 1) |->
            IF bin \in DOMAIN time_bin_avg THEN Relative(time_bin_avg[bin], avg)
            ELSE RInt(1)]

\* lines 181-195
TimePatterns(srows, avg) ==
    LET time_bin_avg == BinMeans(srows)
    IN  [bin \in 0..(bins_per_day - 1) |->
            IF bin \in DOMAIN time_bin_avg THEN Relative(time_bin_avg[bin], avg)
            ELSE IF DOMAIN time_bin_avg # {}
            THEN Relative(time_bin_avg[Closest(DOMAIN time_bin_avg, bin)], avg)
            ELSE RInt(1)]

\* lines 200-213: the days with at least min_day_obs rows of this station
DayCells(srows) ==
    [day \in {days_of_week[k] : k \in {j \in 1..7 :
                  Len(DayRows(srows, days_of_week[j])) >= min_day_obs}} |->
        BinMeans(DayRows(srows, day))]

\* lines 164-213: what one station with enough rows adds to models_dict
WriteSections(md, station, srows) ==
    LET avg_ridership == Mean(srows)
        cells == DayCells(srows)
    IN  [md EXCEPT
            !.by_station = Put(@, station, [avg_ridership |-> avg_ridership]),
            !.day_of_week_factors = Put(@, station, DayFactors(srows, avg_ridership)),
            !.time_patterns = Put(@, station, TimePatterns(srows, avg_ridership)),
            !.by_day_and_time = IF DOMAIN cells = {} THEN @ ELSE Put(@, station, cells)]

\* a variant of BuildOne that works out the day factors before the test
BuildOne_FactorsFirst(md, station, srows) ==
    LET early == [md EXCEPT !.day_of_week_factors =
                      Put(@, station, DayFactors(srows, Mean(srows)))]
    IN  IF Len(srows) < min_station_obs THEN early
        ELSE WriteSections(early, station, srows)

\* lines 156-213: one iteration of the first station loop
BuildOne(md, station, srows) ==
    IF Len(srows) < min_station_obs THEN md ELSE WriteSections(md, station, srows)

\* lines 218-234: one iteration of the second station loop; fit is what
\* AutoReg(...).fit() did, an exception or the parameters
FitOne(md, station, srows, fit) ==
    IF Len(srows) >= min_ar_obs /\ ~fit.exc /\ station \in DOMAIN md.by_station
    THEN [md EXCEPT !.ar_params = Put(@, station, fit.params)]
    ELSE md

\* processed_data["station_complex"].unique(), lines 156 and 218
Stations(frame) ==
    Unique([k \in 1..Len(frame.rows) |-> frame.rows[k].station_complex])

-----------------------------------------------------------------------------
(* generate_model and the __main__ block (ridership_model.py:238-306).     *)

\* line 263: pd.to_datetime on the cached column raises KeyError when the
\* column is missing and a parse error on text that is not a date
CacheLoads(frame) ==
    /\ "transit_timestamp" \in frame.columns
    /\ \A k \in 1..Len(frame.rows) : ~ToDatetime(frame.rows[k].transit_timestamp).exc

\* lines 303-306 and 238-253: the call, up to the registry
GenerateModel(U) ==
    /\ gen_pc = "idle"
    /\ use_cached_data' \in U.use_cached
    /\ IF ~stops_path.exists
       THEN returned' = "False" /\ gen_pc' = "exit"
       ELSE returned' = returned /\ gen_pc' = "load"
    /\ UNCHANGED << stops_path, cache_file, df_raw, processed_data, models_dict,
                    b_i, pickle_file, exit_status >>
    /\ UNCHANGED notGen

\* lines 256-271: the cache, or what fetch_historical_data returned
LoadData(U) ==
    /\ gen_pc = "load"
    /\ IF use_cached_data /\ cache_file.exists
       THEN IF CacheLoads(cache_file.frame)
            THEN /\ df_raw' = cache_file.frame
                 /\ gen_pc' = "process"
                 /\ UNCHANGED << cache_file, returned >>
            ELSE /\ returned' = "raised"
                 /\ gen_pc' = "exit"
                 /\ UNCHANGED << cache_file, df_raw >>
       ELSE \E fetched \in U.fetched :
                /\ df_raw' = fetched
                /\ cache_file' = IF Len(fetched.rows) > 0
                                 THEN [exists |-> TRUE, frame |-> fetched]
                                 ELSE cache_file
                /\ gen_pc' = "process"
                /\ returned' = returned
    /\ UNCHANGED << stops_path, use_cached_data, processed_data, models_dict, b_i,
                    pickle_file, exit_status >>
    /\ UNCHANGED notGen

\* lines 274-278, and lines 138-150 of the builder
Process ==
    /\ gen_pc = "process"
    /\ processed_data' = process_raw_data(df_raw, stops_path.names)
    /\ IF Len(processed_data'.rows) = 0
       THEN returned' = "False" /\ gen_pc' = "exit" /\ b_i' = b_i
       ELSE returned' = returned /\ gen_pc' = "build" /\ b_i' = 1
    /\ models_dict' = NoModelsDict
    /\ UNCHANGED << stops_path, cache_file, use_cached_data, df_raw, pickle_file,
                    exit_status >>
    /\ UNCHANGED notGen

\* lines 156-213: one iteration of the first station loop
BuildStation ==
    /\ gen_pc = "build"
    /\ LET stations == Stations(processed_data)
           station == stations[b_i]
       IN  /\ models_dict' = BuildOne(models_dict, station,
                                      StationRows(processed_data.rows, station))
           /\ IF b_i < Len(stations)
              THEN b_i' = b_i + 1 /\ gen_pc' = gen_pc
              ELSE b_i' = 1 /\ gen_pc' = "fit"
    /\ UNCHANGED << stops_path, cache_file, use_cached_data, df_raw, processed_data,
                    pickle_file, returned, exit_status >>
    /\ UNCHANGED notGen

\* lines 218-234: one iteration of the second station loop
FitStation(U) ==
    /\ gen_pc = "fit"
    /\ \E fit \in U.fits :
        LET stations == Stations(processed_data)
            station == stations[b_i]
            srows == StationRows(processed_data.rows, station)
        IN  /\ (Len(srows) < min_ar_obs => fit.exc)     \* nothing is fitted
            /\ models_dict' = FitOne(models_dict, station, srows, fit)
            /\ IF b_i < Len(stations)
               THEN b_i' = b_i + 1 /\ gen_pc' = gen_pc
               ELSE b_i' = 0 /\ gen_pc' = "save"
    /\ UNCHANGED << stops_path, cache_file, use_cached_data, df_raw, processed_data,
                    pickle_file, returned, exit_status >>
    /\ UNCHANGED notGen

\* lines 283-289: open() or pickle.dump raises, or the file is written
Save(U) ==
    /\ gen_pc = "save"
    /\ \E ok \in U.writable :
        IF ok
        THEN /\ pickle_file' = [written |-> TRUE, models |-> models_dict]
             /\ returned' = "True"
        ELSE /\ pickle_file' = pickle_file
             /\ returned' = "raised"
    /\ gen_pc' = "exit"
    /\ UNCHANGED << stops_path, cache_file, use_cached_data, df_raw, processed_data,
                    models_dict, b_i, exit_status >>
    /\ UNCHANGED notGen

\* line 306: the value of generate_model is dropped; the interpreter ends
\* with 1 after an uncaught exception and with 0 otherwise
Exit ==
    /\ gen_pc = "exit"
    /\ exit_status' = IF returned = "raised" THEN 1 ELSE 0
    /\ gen_pc' = "exited"
    /\ UNCHANGED << stops_path, cache_file, use_cached_data, df_raw, processed_data,
                    models_dict, b_i, pickle_file, returned >>
    /\ UNCHANGED notGen

\* the builder before it is started, on a given disk
GenInit(U) ==
    /\ gen_pc = "idle"
    /\ stops_path \in U.stops
    /\ cache_file \in U.caches
    /\ use_cached_data = FALSE
    /\ df_raw = EmptyFrame
    /\ processed_data = EmptyFrame
    /\ models_dict = NoModelsDict
    /\ b_i = 0
    /\ pickle_file = [written |-> FALSE, models |-> NoModelsDict]
    /\ returned = "none"
    /\ exit_status = -1

\* what the builder's environment draws from

MaxRawRows == 3

nA == << "A" >>
nB == << "B" >>
nAB == << "A", "/", "B" >>
nBx == << "B", " ", "(", "x", ")" >>
nC == << "C" >>

Txt(v) == [numeric |-> TRUE, v |-> v]
NotANumber == [numeric |-> FALSE, v |-> 0]

RawRow(name, t, rid, tr) ==
    [station_complex |-> name, transit_timestamp |-> t, ridership |-> rid,
     transfers |-> tr]

MondayMorning == 8 * 60 + 30
TuesdayEvening == 24 * 60 + 17 * 60
NotADate == -1

RawRowSet ==
    {RawRow(nAB, MondayMorning, Txt(3), Txt(1)),
     RawRow(nA, MondayMorning, Txt(5), NotANumber),
     RawRow(nBx, TuesdayEvening, Txt(7), Txt(2)),
     RawRow(nC, MondayMorning, Txt(11), Txt(4)),
     RawRow(nA, TuesdayEvening, NotANumber, Txt(8)),
     RawRow(nB, NotADate, Txt(2), Txt(0))}

RawFrame(rows) == [columns |-> RequiredColumns \cup {"borough"}, rows |-> rows]

\* line 58: no row at all comes back as a frame without columns
SmallFrames ==
    {IF rows = << >> THEN EmptyFrame ELSE RawFrame(rows) :
        rows \in SeqsUpTo(RawRowSet, MaxRawRows)}

\* a response whose rows lack one of the columns
DriftFrames ==
    {[columns |-> (RequiredColumns \cup {"borough"}) \ {c},
      rows |-> << RawRow(nAB, MondayMorning, Txt(3), Txt(1)),
                  RawRow(nA, TuesdayEvening, Txt(5), Txt(0)) >>] : c \in RequiredColumns}

\* n observations of one station, step minutes apart
Series(name, n, step, base, slope) ==
    [k \in 1..n |-> RawRow(name, (k - 1) * step, Txt(base + slope * k), Txt(1))]

SeriesFrames ==
    {RawFrame(Series(nA, a, 60, v, v) \o Series(nB, b, 120, 4, 0)) :
        a \in {min_station_obs - 1, min_station_obs, min_ar_obs - 1, min_ar_obs},
        b \in {0, min_day_obs, min_ar_obs},
        v \in {0, 2}}

Fits == {[exc |-> TRUE, params |-> << >>], [exc |-> FALSE, params |-> << 1, 2, 3, 4 >>]}

Registry(names) == [exists |-> TRUE, names |-> names]
NoRegistry == [exists |-> FALSE, names |-> << >>]
NoCache == [exists |-> FALSE, frame |-> EmptyFrame]
Cache(frame) == [exists |-> TRUE, frame |-> frame]

BuilderU ==
    [stops |-> {NoRegistry, Registry(<< nA, nB >>), Registry(<< nB, nB >>)},
     caches |-> {NoCache,
                 Cache(RawFrame(<< RawRow(nA, MondayMorning, Txt(5), Txt(1)) >>)),
                 Cache(RawFrame(<< RawRow(nB, NotADate, Txt(2), Txt(0)) >>)),
                 Cache([columns |-> RequiredColumns \ {"transit_timestamp"},
                        rows |-> << RawRow(nA, MondayMorning, Txt(5), Txt(1)) >>])},
     use_cached |-> BOOLEAN,
     fetched |-> SmallFrames \cup DriftFrames \cup SeriesFrames,
     fits |-> Fits,
     writable |-> BOOLEAN]

BuilderNext ==
    \/ GenerateModel(BuilderU) \/ LoadData(BuilderU) \/ Process \/ BuildStation
    \/ FitStation(BuilderU) \/ Save(BuilderU) \/ Exit
BuilderInit == PredIdle /\ FetchIdle /\ GenInit(BuilderU) /\ TogIdle
SpecBuilder == BuilderInit /\ [][BuilderNext]_vars

-----------------------------------------------------------------------------
(* Properties of process_raw_data.                                         *)

SubNames(row) == Split(row.station_complex, "/")

\* the (source row, sub-name) pairs whose ridership reads as a number
Contributions(rows) ==
    {<< k, j >> \in (1..Len(rows)) \X (1..8) :
        j <= Len(SubNames(rows[k])) /\ rows[k].ridership.numeric}

ContributionKey(rows, c) ==
    << rows[c[1]].transit_timestamp, Strip(RemoveParens(SubNames(rows[c[1]])[c[2]], 1)) >>

RECURSIVE SumContributions(_, _, _)
SumContributions(rows, col, C) ==
    IF C = {} THEN 0
    ELSE LET c == CHOOSE x \in C : TRUE
             cell == rows[c[1]][col]
         IN  (IF cell.numeric THEN cell.v ELSE 0) + SumContributions(rows, col, C \ {c})

\* what the claim makes of a raw frame: every sub-name of a source row
\* counts with that row's own timestamp, ridership and transfers
ExpectedObservations(rows, names) ==
    LET C == Contributions(rows)
        keys == {ContributionKey(rows, c) : c \in C}
        Of(key) == {c \in C : ContributionKey(rows, c) = key}
    IN  {[transit_timestamp |-> key[1], station_complex |-> key[2],
          ridership |-> SumContributions(rows, "ridership", Of(key)),
          transfers |-> SumContributions(rows, "transfers", Of(key))] :
            key \in {x \in keys : \E n \in 1..Len(names) : names[n] = x[2]}}

Observations(frame) ==
    {[transit_timestamp |-> frame.rows[k].transit_timestamp,
      station_complex |-> frame.rows[k].station_complex,
      ridership |-> frame.rows[k].ridership,
      transfers |-> frame.rows[k].transfers] : k \in 1..Len(frame.rows)}

\* process_raw_data ran on a frame it could read to the end
Processed ==
    /\ gen_pc \notin {"idle", "load", "process"}
    /\ stops_path.exists
    /\ Len(df_raw.rows) > 0
    /\ RequiredColumns \subseteq df_raw.columns
    /\ \A k \in 1..Len(df_raw.rows) :
          df_raw.rows[k].ridership.numeric => df_raw.rows[k].transit_timestamp >= 0

\* C13: the observations that process_raw_data returns are those of the raw
\* rows with every "/"-separated sub-name of a source row counted with that
\* source row's own timestamp, ridership and transfers: no value is attached
\* to a name from another source row and no sub-name is lost.
C13_ExpansionKeepsOwnValues ==
    Processed =>
        Observations(processed_data) = ExpectedObservations(df_raw.rows, stops_path.names)

-----------------------------------------------------------------------------
(* Properties of the model builder.                                        *)

ObservationsOf(station) == Len(StationRows(processed_data.rows, station))

Keys(md) ==
    (DOMAIN md.by_station) \cup (DOMAIN md.day_of_week_factors) \cup
    (DOMAIN md.time_patterns) \cup (DOMAIN md.by_day_and_time) \cup (DOMAIN md.ar_params)

Consistent(md) ==
    /\ DOMAIN md.day_of_week_factors \subseteq DOMAIN md.by_station
    /\ DOMAIN md.time_patterns \subseteq DOMAIN md.by_station
    /\ DOMAIN md.by_day_and_time \subseteq DOMAIN md.by_station
    /\ DOMAIN md.ar_params \subseteq DOMAIN md.by_station
    /\ \A station \in Keys(md) : ObservationsOf(station) >= 24

\* C14: in the dict being built and in the dict written, every station key
\* of day_of_week_factors, time_patterns and by_day_and_time is a key of
\* by_station, ar_params are held only for keys of by_station, and no
\* station with fewer than 24 observations is a key of anything.
C14_SectionsAgree ==
    /\ Consistent(models_dict)
    /\ pickle_file.written => Consistent(pickle_file.models)

\* a file was written with one station modelled in full, AR parameters
\* included, while another station of the data was too short to be modelled
C14_Witness ==
    /\ pickle_file.written
    /\ \E station \in DOMAIN pickle_file.models.ar_params :
          station \in DOMAIN pickle_file.models.by_day_and_time
    /\ \E k \in 1..Len(processed_data.rows) :
          /\ ObservationsOf(processed_data.rows[k].station_complex) < 24
          /\ processed_data.rows[k].station_complex \notin Keys(pickle_file.models)

-----------------------------------------------------------------------------
(* Properties of generate_model.                                           *)

\* line 274 was passed: the registry was found and reading the cache did not
\* raise
AfterProcess ==
    /\ gen_pc \in {"build", "fit", "save", "exit", "exited"}
    /\ stops_path.exists
    /\ ~(returned = "raised" /\ Len(processed_data.rows) = 0)

\* the frame handed to process_raw_data has rows but not every required column
SchemaDrift ==
    /\ AfterProcess
    /\ Len(df_raw.rows) > 0
    /\ ~(RequiredColumns \subseteq df_raw.columns)

\* C19: a raw frame that lacks a required column does not come out of
\* ingestion as an ordinary empty observation set followed by the ordinary
\* "no data" return: the outcome is a failure of its own.
C19_SchemaDriftIsAnError ==
    SchemaDrift => ~(processed_data = EmptyFrame /\ returned = "False")

\* the run ended without an observation to build from
NothingToBuild ==
    ~stops_path.exists \/ (AfterProcess /\ Len(processed_data.rows) = 0)

\* C20: generate_model returns True only with the model file written; the
\* builder process ends with status 0 exactly when the file was written; a
\* run with no registry file or no processed observation writes no file and
\* ends with a status other than 0.
C20_SuccessIffArtifact ==
    /\ returned = "True" => pickle_file.written
    /\ gen_pc = "exited" => (exit_status = 0 <=> pickle_file.written)
    /\ (gen_pc = "exited" /\ NothingToBuild) =>
          ~pickle_file.written /\ exit_status # 0

-----------------------------------------------------------------------------
(* The toll-zone aggregator (toggles-checkpoint.py).                       *)
(* A row is a function from column names to cells.  A time block, a region *)
(* or a LocationID is [na, v], na for a missing value (NaN); a cell of     *)
(* entries or counts is [numeric, v] as read, and a number once coerced.   *)

c_block == "Toll 10 Minute Block"
c_region == "Detection Region"
c_entries == "Predicted CRZ Entries"
c_total == "Total Predicted CRZ Entries"

Some(v) == [na |-> FALSE, v |-> v]
NoBlock == [na |-> TRUE, v |-> 0]
NoRegion == [na |-> TRUE, v |-> << >>]

\* pd.to_numeric(..., errors="coerce").fillna(0), lines 58 and 87
Coerced(rows, col) ==
    [k \in 1..Len(rows) |->
        [rows[k] EXCEPT ![col] = IF @.numeric THEN @.v ELSE 0]]

\* groupby([c1, c2], as_index=False)[col].sum(): rows with a missing key are
\* left out (dropna=True is the default), one row per key, in key order
GroupSum(rows, c1, c2, col) ==
    LET P == {k \in 1..Len(rows) : ~rows[k][c1].na /\ ~rows[k][c2].na}
        KeyOf(k) == << rows[k][c1].v, rows[k][c2].v >>
        keys == SortKeys({KeyOf(k) : k \in P})
    IN  [g \in 1..Len(keys) |->
            (c1 :> Some(keys[g][1])) @@ (c2 :> Some(keys[g][2])) @@
            (col :> Total([k \in 1..Len(rows) |->
                              IF k \in P /\ KeyOf(k) = keys[g] THEN rows[k][col] ELSE 0]))]

\* the keys switched on, in dict order: lines 52-53
RECURSIVE Enabled(_)
Enabled(tg) ==
    IF tg = << >> THEN << >>
    ELSE (IF Head(tg).is_on THEN << Head(tg).key >> ELSE << >>) \o Enabled(Tail(tg))

\* rename(columns={"Predicted CRZ Entries": "Total Predicted CRZ Entries"}), line 69
Renamed(rows) ==
    [k \in 1..Len(rows) |->
        (c_block :> rows[k][c_block]) @@ (c_region :> rows[k][c_region]) @@
        (c_total :> rows[k][c_entries])]

\* aggregate_by_time_and_region(toggles), lines 50-70
aggregate_by_time_and_region(tg, dfs) ==
    LET on == Enabled(tg)
        aggregated_data ==
            [k \in 1..Len(on) |->
                GroupSum(Coerced(dfs[on[k]], c_entries), c_block, c_region, c_entries)]
    IN  IF \E k \in 1..Len(on) : on[k] \notin DOMAIN dfs
        THEN [exc |-> TRUE, columns |-> << >>, rows |-> << >>]          \* line 55
        ELSE IF Len(on) = 0
        THEN [exc |-> FALSE, columns |-> << c_block, c_region, c_total >>,
              rows |-> << >>]                                          \* line 64
        ELSE [exc |-> FALSE, columns |-> << c_block, c_region, c_total >>,
              rows |-> Renamed(GroupSum(Flatten(aggregated_data),
                                        c_block, c_region, c_entries))]

c_time == "time_interval"
c_count == "count"
c_loc == "LocationID"

NoTime == [na |-> TRUE, v |-> 0]
NoLocation == [na |-> TRUE, v |-> 0]

RECURSIVE SortInts(_)
SortInts(S) ==
    IF S = {} THEN << >>
    ELSE LET least == CHOOSE a \in S : \A b \in S : a <= b
         IN  << least >> \o SortInts(S \ {least})

\* line 200: sorted(toggles_agg_df["Toll 10 Minute Block"].unique())
TimeIntervals(frame) == SortInts({frame.rows[k][c_block].v : k \in 1..Len(frame.rows)})

\* line 87 as the caller's frame sees it: the column is assigned in place
CountsCoerced(taxi) ==
    [k \in 1..Len(taxi) |->
        [taxi[k] EXCEPT ![c_count] = [numeric |-> TRUE, v |-> IF @.numeric THEN @.v ELSE 0]]]

\* aggregate_taxi_by_time_and_location(taxi_df, toggles_time_intervals), lines 72-103
aggregate_taxi_by_time_and_location(taxi, T) ==
    IF T = << >> THEN [exc |-> TRUE, columns |-> << >>, rows |-> << >>]   \* max([]), line 90
    ELSE
    LET counted == Coerced(taxi, c_count)
        max_interval == T[CHOOSE k \in 1..Len(T) : \A j \in 1..Len(T) : T[j] <= T[k]]
        \* line 91: a comparison with a missing time is False
        trimmed == SelectSeq(counted,
                             LAMBDA r : ~r[c_time].na /\ r[c_time].v <= max_interval)
        \* line 94: groups with a missing key are left out
        P == {k \in 1..Len(trimmed) : ~trimmed[k][c_loc].na}
        At(t, L) == {k \in P : trimmed[k][c_time].v = t /\ trimmed[k][c_loc].v = L}
        index == {trimmed[k][c_time].v : k \in P}
        columns == {trimmed[k][c_loc].v : k \in P}
        \* line 97: pivot leaves a pair that has no group as NaN
        Pivot(t, L) ==
            IF At(t, L) = {} THEN NaN
            ELSE Num(Total([k \in 1..Len(trimmed) |->
                              IF k \in At(t, L) THEN trimmed[k][c_count] ELSE 0]))
        \* line 100: reindex fills the rows it adds, and only those
        Reindexed(t) ==
            IF t \in index THEN [L \in columns |-> Pivot(t, L)]
            ELSE [L \in columns |-> Num(0)]
    IN  [exc |-> FALSE, columns |-> SortInts(columns),
         rows |-> [k \in 1..Len(T) |-> [time_interval |-> T[k], cells |-> Reindexed(T[k])]]]

\* strings of lines 105-113 and 135-138
s_brooklyn == << "b","r","o","o","k","l","y","n" >>
s_east == << "e","a","s","t" >>
s_west == << "w","e","s","t" >>
s_60th == << "6","0","t","h" >>
s_60th_street == << " ","6","0","t","h"," ","s","t","r","e","e","t" >>
s_east_60th_street == s_east \o s_60th_street
s_west_60th_street == s_west \o s_60th_street
s_fdr_drive == << "f","d","r"," ","d","r","i","v","e" >>
s_new_jersey == << "n","e","w"," ","j","e","r","s","e","y" >>
s_queens == << "q","u","e","e","n","s" >>
s_west_side_highway == s_west \o << " ","s","i","d","e"," ","h","i","g","h","w","a","y" >>

Coords(lat, lon) == [latitude |-> lat, longitude |-> lon]

\* lines 105-113
zone_coords ==
    (s_brooklyn :> Coords("40.7061", "-73.9969")) @@
    (s_east_60th_street :> Coords("40.7616", "-73.9644")) @@
    (s_fdr_drive :> Coords("40.7626", "-73.9582")) @@
    (s_new_jersey :> Coords("40.7608", "-74.0075")) @@
    (s_queens :> Coords("40.7440", "-73.9675")) @@
    (s_west_60th_street :> Coords("40.7700", "-73.9850")) @@
    (s_west_side_highway :> Coords("40.7711", "-73.9897"))

\* str.split(): the maximal runs of characters that are not blanks
RECURSIVE Words(_, _)
Words(s, cur) ==
    IF s = << >> THEN (IF cur = << >> THEN << >> ELSE << cur >>)
    ELSE IF IsSpace(Head(s))
    THEN (IF cur = << >> THEN << >> ELSE << cur >>) \o Words(Tail(s), << >>)
    ELSE Words(Tail(s), Append(cur, Head(s)))

\* ' '.join(words)
RECURSIVE JoinWords(_)
JoinWords(ws) ==
    IF ws = << >> THEN << >>
    ELSE IF Len(ws) = 1 THEN ws[1]
    ELSE ws[1] \o << " " >> \o JoinWords(Tail(ws))

\* str.replace("  ", " "): every pair of blanks, left to right, becomes one
RECURSIVE ReplacePairs(_)
ReplacePairs(s) ==
    IF Len(s) < 2 THEN s
    ELSE IF IsSpace(s[1]) /\ IsSpace(s[2]) THEN << " " >> \o ReplacePairs(SubSeq(s, 3, Len(s)))
    ELSE << s[1] >> \o ReplacePairs(Tail(s))

\* a variant of Collapse that squeezes blanks with one pass of replace
Collapse_OnePass(raw_region) == ReplacePairs(Lower(Strip(raw_region)))

\* line 132: ' '.join(raw_region.strip().lower().split())
Collapse(raw_region) == JoinWords(Words(Lower(Strip(raw_region)), << >>))

\* sub in s
Contains(s, sub) ==
    \E k \in 0..(Len(s) - Len(sub)) : SubSeq(s, k + 1, k + Len(sub)) = sub

\* lines 132-138
RegionKey(raw_region) ==
    LET k0 == Collapse(raw_region)
        k1 == IF Contains(k0, s_east) /\ Contains(k0, s_60th)
              THEN s_east_60th_street ELSE k0
    IN  IF Contains(k1, s_west) /\ Contains(k1, s_60th)
        THEN s_west_60th_street ELSE k1

\* lines 130-151: one row of format_toggle_data; row[...] raises KeyError on a
\* column the frame does not have, and .strip() raises on a missing region
FormatRow(row) ==
    IF c_region \notin DOMAIN row \/ row[c_region].na
    THEN [exc |-> TRUE, region_key |-> << >>, toggle_obj |-> << >>]
    ELSE LET key == RegionKey(row[c_region].v)
             coords == IF key \in DOMAIN zone_coords THEN zone_coords[key]
                       ELSE Coords("None", "None")
         IN  IF c_block \notin DOMAIN row \/ c_entries \notin DOMAIN row
             THEN [exc |-> TRUE, region_key |-> key, toggle_obj |-> << >>]
             ELSE [exc |-> FALSE, region_key |-> key,
                   toggle_obj |-> [latitude |-> coords.latitude,
                                   longitude |-> coords.longitude,
                                   time |-> row[c_block],
                                   predictionCRZ |-> row[c_entries]]]

\* the keys of dataframes in the order of lines 162-167
ClassOrder == << "cars", "single_unit", "multi_unit", "buses", "motorcycles", "taxifhv" >>

\* what load_predictions returns, lines 4-11
ClassFrame(dfs, key) ==
    [src |-> key, columns |-> << c_block, c_region, c_entries >>, rows |-> dfs[key]]

\* lines 23-48 are done and line 162 is about to run
TogInit(U) ==
    /\ tog_pc = "import"
    /\ dataframes \in U.dataframes
    /\ taxi_pred_df \in U.taxi
    /\ toggles = << >>
    /\ toggles_agg_df = NoFrame
    /\ taxi_aligned_df = NoFrame
    /\ fmt_df = ClassFrame(dataframes, ClassOrder[1])
    /\ f_i = 1
    /\ region_key = << >>
    /\ output_list = << >>

\* lines 129-152: one iteration of the row loop of format_toggle_data
FormatRowStep ==
    /\ tog_pc \in {"import", "format"}
    /\ f_i <= Len(fmt_df.rows)
    /\ LET r == FormatRow(fmt_df.rows[f_i])
       IN  /\ region_key' = r.region_key
           /\ IF r.exc
              THEN tog_pc' = "raised" /\ UNCHANGED << f_i, output_list >>
              ELSE /\ output_list' = Append(output_list, r.toggle_obj)
                   /\ f_i' = f_i + 1
                   /\ tog_pc' = tog_pc
    /\ UNCHANGED << dataframes, taxi_pred_df, toggles, toggles_agg_df,
                    taxi_aligned_df, fmt_df >>
    /\ UNCHANGED notTog

\* line 153; at import the next of lines 162-167 follows, and after the last
\* of them lines 169-174 and the __main__ block
FormatReturn ==
    /\ tog_pc \in {"import", "format"}
    /\ f_i > Len(fmt_df.rows)
    /\ IF tog_pc = "format"
       THEN tog_pc' = "formatted" /\ UNCHANGED << fmt_df, f_i, output_list >>
       ELSE LET k == CHOOSE j \in 1..Len(ClassOrder) : ClassOrder[j] = fmt_df.src
            IN  IF k < Len(ClassOrder)
                THEN /\ fmt_df' = ClassFrame(dataframes, ClassOrder[k + 1])
                     /\ f_i' = 1
                     /\ output_list' = << >>
                     /\ tog_pc' = tog_pc
                ELSE tog_pc' = "main" /\ UNCHANGED << fmt_df, f_i, output_list >>
    /\ UNCHANGED << dataframes, taxi_pred_df, toggles, toggles_agg_df,
                    taxi_aligned_df, region_key >>
    /\ UNCHANGED notTog

\* lines 185-198
Aggregate(U) ==
    /\ tog_pc = "main"
    /\ toggles' \in U.toggles
    /\ toggles_agg_df' = aggregate_by_time_and_region(toggles', dataframes)
    /\ tog_pc' = IF toggles_agg_df'.exc THEN "raised" ELSE "aggregated"
    /\ UNCHANGED << dataframes, taxi_pred_df, taxi_aligned_df, fmt_df, f_i,
                    region_key, output_list >>
    /\ UNCHANGED notTog

\* lines 200-205
AlignTaxi ==
    /\ tog_pc = "aggregated"
    /\ taxi_aligned_df' =
          aggregate_taxi_by_time_and_location(taxi_pred_df, TimeIntervals(toggles_agg_df))
    /\ taxi_pred_df' = CountsCoerced(taxi_pred_df)
    /\ tog_pc' = IF taxi_aligned_df'.exc THEN "raised" ELSE "aligned"
    /\ UNCHANGED << dataframes, toggles, toggles_agg_df, fmt_df, f_i, region_key,
                    output_list >>
    /\ UNCHANGED notTog

\* format_toggle_data(toggles_agg_df), the use its docstring describes
FormatAggregated ==
    /\ tog_pc = "aligned"
    /\ fmt_df' = [src |-> "aggregated", columns |-> toggles_agg_df.columns,
                  rows |-> toggles_agg_df.rows]
    /\ f_i' = 1
    /\ output_list' = << >>
    /\ tog_pc' = "format"
    /\ UNCHANGED << dataframes, taxi_pred_df, toggles, toggles_agg_df,
                    taxi_aligned_df, region_key >>
    /\ UNCHANGED notTog

TogNext(U) ==
    \/ FormatRowStep \/ FormatReturn \/ Aggregate(U) \/ AlignTaxi \/ FormatAggregated

\* what the aggregator's environment draws from

MaxTollRows == 2

r_Brooklyn == << "B","r","o","o","k","l","y","n" >>
r_East60 == << "E","a","s","t"," ","6","0","t","h"," ","S","t" >>
r_Queens == << "Q","u","e","e","n","s" >>
r_Bronx == << "B","r","o","n","x" >>

TollRow(b, r, e) == (c_block :> b) @@ (c_region :> r) @@ (c_entries :> e)

TollRowSet ==
    {TollRow(Some(1), Some(r_Brooklyn), Txt(3)),
     TollRow(Some(1), Some(r_Brooklyn), NotANumber),
     TollRow(Some(2), Some(r_East60), Txt(5)),
     TollRow(NoBlock, Some(r_Queens), Txt(7)),
     TollRow(Some(1), NoRegion, Txt(2))}

Tables ==
    {(ClassOrder[1] :> cars) @@ (ClassOrder[4] :> buses) @@
     [key \in {ClassOrder[k] : k \in {2, 3, 5, 6}} |-> rest] :
        cars \in SeqsUpTo(TollRowSet, MaxTollRows),
        buses \in {<< >>, << TollRow(Some(1), Some(r_Brooklyn), Txt(4)) >>,
                   << TollRow(Some(3), Some(r_Bronx), Txt(1)) >>},
        rest \in {<< >>}}

TaxiRow(t, loc, n) == (c_time :> t) @@ (c_loc :> loc) @@ (c_count :> n)

TaxiTables ==
    {<< >>,
     << TaxiRow(Some(1), Some(10), Txt(4)), TaxiRow(Some(1), Some(10), Txt(2)),
        TaxiRow(Some(2), Some(20), Txt(5)) >>,
     << TaxiRow(Some(3), Some(10), Txt(1)) >>,
     << TaxiRow(Some(1), NoLocation, Txt(3)), TaxiRow(NoTime, Some(10), Txt(2)),
        TaxiRow(Some(1), Some(10), NotANumber), TaxiRow(Some(9), Some(30), Txt(6)) >>}

On(keys) == [k \in 1..Len(ClassOrder) |->
                [key |-> ClassOrder[k], is_on |-> ClassOrder[k] \in keys]]

ToggleMaps ==
    {On({ClassOrder[k] : k \in 1..6}), On({"cars"}), On({"cars", "buses"}), On({"buses"}),
     On({}), << [key |-> "bikes", is_on |-> TRUE] >>}

TogglesU == [dataframes |-> Tables, taxi |-> TaxiTables, toggles |-> ToggleMaps]

TogglesInit == PredIdle /\ FetchIdle /\ GenIdle /\ TogInit(TogglesU)
TogglesNext == TogNext(TogglesU)
SpecToggles == TogglesInit /\ [][TogglesNext]_vars

MaxTokens == 3

w_East == << "E", "a", "s", "t" >>
w_west == << "w", "e", "s", "t" >>
w_60th == << "6", "0", "t", "h" >>
w_St == << "S", "t" >>
w_blank == << " " >>
w_blanks == << " ", " ", " " >>

\* region names made of up to MaxTokens of these pieces
RegionStrings ==
    {Flatten(ws) : ws \in SeqsUpTo({w_East, w_west, w_60th, w_St, w_blank, w_blanks},
                                   MaxTokens)}

OnlyCars(rows) ==
    (ClassOrder[1] :> rows) @@ [key \in {ClassOrder[k] : k \in 2..6} |-> << >>]

RegionsU ==
    [dataframes |-> {OnlyCars(<< TollRow(Some(1), Some(r), Txt(1)) >>) : r \in RegionStrings},
     taxi |-> {<< TaxiRow(Some(1), Some(10), Txt(4)) >>},
     toggles |-> {On({"cars"})}]

RegionsInit == PredIdle /\ FetchIdle /\ GenIdle /\ TogInit(RegionsU)
RegionsNext == TogNext(RegionsU)
SpecRegions == RegionsInit /\ [][RegionsNext]_vars

-----------------------------------------------------------------------------
(* Properties of the toll-zone aggregator.                                 *)

\* aggregate_by_time_and_region has returned a frame
Aggregated == toggles # << >> /\ ~toggles_agg_df.exc

EntryValue(cell) == IF cell.numeric THEN cell.v ELSE 0

\* the rows of the classes switched on
EnabledRows ==
    Flatten([k \in 1..Len(toggles) |->
                IF toggles[k].is_on THEN dataframes[toggles[k].key] ELSE << >>])

\* C15: the totals of the result rows add up to the entries, read as numbers
\* with anything else counting 0, of all rows of the classes switched on,
\* rows with a missing time block or region included; and the result has one
\* row for each distinct (time block, region) pair of those rows.
C15_TotalIsConserved ==
    Aggregated =>
        /\ Total([k \in 1..Len(toggles_agg_df.rows) |-> toggles_agg_df.rows[k][c_total]])
             = Total([k \in 1..Len(EnabledRows) |-> EntryValue(EnabledRows[k][c_entries])])
        /\ {<< toggles_agg_df.rows[k][c_block], toggles_agg_df.rows[k][c_region] >> :
                k \in 1..Len(toggles_agg_df.rows)}
             = {<< EnabledRows[k][c_block], EnabledRows[k][c_region] >> :
                k \in 1..Len(EnabledRows)}
        /\ \A a, b \in 1..Len(toggles_agg_df.rows) :
              (toggles_agg_df.rows[a][c_block] = toggles_agg_df.rows[b][c_block]
                 /\ toggles_agg_df.rows[a][c_region] = toggles_agg_df.rows[b][c_region])
              => a = b

\* aggregate_taxi_by_time_and_location has returned a table
Aligned ==
    tog_pc \in {"aligned", "format", "formatted"}
    \/ (tog_pc = "raised" /\ fmt_df.src = "aggregated")

\* the counts of the taxi rows of one time interval and one LocationID
TaxiCount(t, L) ==
    Total([k \in 1..Len(taxi_pred_df) |->
              IF /\ ~taxi_pred_df[k][c_time].na /\ taxi_pred_df[k][c_time].v = t
                 /\ ~taxi_pred_df[k][c_loc].na /\ taxi_pred_df[k][c_loc].v = L
              THEN EntryValue(taxi_pred_df[k][c_count]) ELSE 0])

\* C16: the rows of the aligned taxi table are the time blocks of the
\* aggregated frame in ascending order, and every cell (t, L) is the sum of
\* the counts of the taxi rows of (t, L), which is 0 when there is none.
C16_TaxiCellsAreSums ==
    Aligned =>
        LET T == TimeIntervals(toggles_agg_df)
        IN  /\ Len(taxi_aligned_df.rows) = Len(T)
            /\ \A k \in 1..Len(T) :
                /\ taxi_aligned_df.rows[k].time_interval = T[k]
                /\ \A j \in 1..Len(taxi_aligned_df.columns) :
                     taxi_aligned_df.rows[k].cells[taxi_aligned_df.columns[j]]
                       = Num(TaxiCount(T[k], taxi_aligned_df.columns[j]))

\* C17: the key that the normalization produced for a row is a fixed point
\* of the normalization.
C17_NormalizationIdempotent == RegionKey(region_key) = region_key

\* a region naming both "east" and "west" with "60th" was normalized, to the
\* east key
C17_Witness ==
    /\ tog_pc \in {"import", "format"}
    /\ f_i > 1
    /\ LET raw == Lower(fmt_df.rows[f_i - 1][c_region].v)
       IN  Contains(raw, s_east) /\ Contains(raw, s_west) /\ Contains(raw, s_60th)
    /\ region_key = s_east_60th_street

\* the coordinates of a raw region name
CoordsOf(raw_region) ==
    IF RegionKey(raw_region) \in DOMAIN zone_coords
    THEN zone_coords[RegionKey(raw_region)] ELSE Coords("None", "None")

\* C18: format_toggle_data applied to the frame of
\* aggregate_by_time_and_region does not fail, and returns one record per
\* row with the row's time block, its total, and the coordinates of its
\* normalized region or nulls.
C18_FormatsAggregatedFrame ==
    fmt_df.src = "aggregated" =>
        /\ tog_pc # "raised"
        /\ tog_pc = "formatted" =>
            /\ Len(output_list) = Len(fmt_df.rows)
            /\ \A k \in 1..Len(fmt_df.rows) :
                /\ output_list[k].time = fmt_df.rows[k][c_block]
                /\ output_list[k].predictionCRZ = fmt_df.rows[k][c_total]
                /\ output_list[k].latitude = CoordsOf(fmt_df.rows[k][c_region].v).latitude
                /\ output_list[k].longitude = CoordsOf(fmt_df.rows[k][c_region].v).longitude

-----------------------------------------------------------------------------
(* Properties of time_patterns.                                             *)

\* the positions of a station's rows in processed_data, all or of one bin
RowsAt(station) ==
    {k \in 1..Len(processed_data.rows) : processed_data.rows[k].station_complex = station}
RowsInBin(station, b) ==
    {k \in RowsAt(station) : processed_data.rows[k].time_bin = b}
ObservedBins(station) == {processed_data.rows[k].time_bin : k \in RowsAt(station)}

RECURSIVE RidershipOver(_)
RidershipOver(P) ==
    IF P = {} THEN 0
    ELSE LET k == CHOOSE x \in P : TRUE
         IN  processed_data.rows[k].ridership + RidershipOver(P \ {k})

\* x = mean(ridership in bin b) / mean(ridership), as an equation of integers
IsBinRatio(x, station, b) ==
    x.n * Cardinality(RowsInBin(station, b)) * RidershipOver(RowsAt(station))
        = x.d * RidershipOver(RowsInBin(station, b)) * Cardinality(RowsAt(station))

Nearest(station, b) ==
    {x \in ObservedBins(station) :
        \A y \in ObservedBins(station) : Abs(x - b) <= Abs(y - b)}

Dense(md) ==
    \A station \in DOMAIN md.time_patterns :
        LET pattern == md.time_patterns[station]
        IN  /\ DOMAIN pattern = 0..143
            /\ \A b \in 0..143 :
                  IF RidershipOver(RowsAt(station)) = 0
                  THEN pattern[b] = RInt(1)
                  ELSE IF b \in ObservedBins(station)
                  THEN IsBinRatio(pattern[b], station, b)
                  ELSE \E x \in Nearest(station, b) :
                          /\ IsBinRatio(pattern[x], station, x)
                          /\ pattern[b] = pattern[x]

\* the first station loop is over
Built == gen_pc \in {"fit", "save"} \/ pickle_file.written

\* C21: every station with at least 24 observations has a time_patterns
\* entry once the first loop is over, and every time_patterns entry has a
\* value for each bin 0..143: the bin's mean ridership over the station's
\* mean ridership for a bin with observations, the value of an observed
\* bin at the least absolute distance for a bin without, and 1.0 for every
\* bin when the station's mean ridership is 0.
C21_TimePatternsDense ==
    /\ Dense(models_dict)
    /\ pickle_file.written => Dense(pickle_file.models)
    /\ Built => \A k \in 1..Len(processed_data.rows) :
          LET station == processed_data.rows[k].station_complex
          IN  ObservationsOf(station) >= 24 => station \in DOMAIN models_dict.time_patterns

\* a written pattern whose observed bins 0 and 6 differ, with bin 1 filled
\* from bin 0, bin 5 from bin 6, and bin 3, as near to one as to the other,
\* from one of them
C21_Witness ==
    /\ pickle_file.written
    /\ \E station \in DOMAIN pickle_file.models.time_patterns :
          LET pattern == pickle_file.models.time_patterns[station]
          IN  /\ {0, 6} \subseteq ObservedBins(station)
              /\ {1, 3, 5} \cap ObservedBins(station) = {}
              /\ pattern[0] # pattern[6]
              /\ pattern[1] = pattern[0]
              /\ pattern[5] = pattern[6]
              /\ pattern[3] \in {pattern[0], pattern[6]}
              /\ pattern[1] # RInt(1)

-----------------------------------------------------------------------------
(* Properties of the consolidated output of process_raw_data.              *)

InRegistry(name) == \E n \in 1..Len(stops_path.names) : stops_path.names[n] = name

\* the contributions of the raw frame under a (timestamp, station) key
ContributionsAt(t, name) ==
    {c \in Contributions(df_raw.rows) : ContributionKey(df_raw.rows, c) = << t, name >>}

\* C22: in the frame that process_raw_data returns, every row's station is
\* a name of the registry, no two rows have the same timestamp and station,
\* and a row's ridership and transfers are the sums over every sub-name
\* row of the raw frame with that timestamp and cleaned station name, the
\* rows whose ridership is not a number left out.
C22_ConsolidatedSums ==
    Processed =>
        LET out == processed_data.rows
        IN  /\ \A k \in 1..Len(out) : InRegistry(out[k].station_complex)
            /\ \A j, k \in 1..Len(out) :
                  (/\ out[j].transit_timestamp = out[k].transit_timestamp
                   /\ out[j].station_complex = out[k].station_complex) => j = k
            /\ \A k \in 1..Len(out) :
                  LET C == ContributionsAt(out[k].transit_timestamp, out[k].station_complex)
                  IN  /\ out[k].ridership = SumContributions(df_raw.rows, "ridership", C)
                      /\ out[k].transfers = SumContributions(df_raw.rows, "transfers", C)

-----------------------------------------------------------------------------
(* The windows of fetch_historical_data (ridership_model.py:17-58).        *)
(* Every statement of the function ends: requests.get has timeout=30 and   *)
(* the sleeps are finite, so a step that can be taken is taken.            *)

\* the first second of a range
RangeStarts == {0, 3 * 24 * 60 * 60}

WindowsU ==
    [fetch_args |-> {[start_date |-> s, end_date |-> s + e, batch_size |-> 1] :
                        s \in RangeStarts, e \in RangeEnds},
     responses |-> {TransportError, Status(200, TRUE), Status(503, FALSE)},
     lengths |-> [limit \in 0..1 |-> {limit}]]

WindowsNext ==
    \/ FetchCall(WindowsU) \/ BeginWindow \/ Attempt(WindowsU) \/ Advance
    \/ FetchReturn \/ FetchDone
SpecWindows == FetchInit /\ [][WindowsNext]_vars /\ WF_vars(WindowsNext)

\* the windows requested so far, as << first second, last second >>
Windows == {<< http_log[k].lo, http_log[k].hi >> : k \in Requests}

WindowsOf(t) == {w \in Windows : w[1] <= t /\ t <= w[2]}

\* the instants at and beside the ends of the range, of the windows and of
\* the weeks counted from the start
Probes ==
    LET near(t) == {t - 1, t, t + 1}
    IN  {t \in near(fetch_args.start_date) \cup near(fetch_args.end_date)
               \cup UNION {near(w[1]) \cup near(w[2]) : w \in Windows}
               \cup UNION {near(fetch_args.start_date + n * Week) : n \in 1..(MaxWindows + 1)} :
            fetch_args.start_date <= t /\ t <= fetch_args.end_date}

WindowsInRange ==
    \A w \in Windows :
        /\ fetch_args.start_date <= w[1] /\ w[1] <= w[2] /\ w[2] <= fetch_args.end_date
        /\ w[2] - w[1] <= 7 * 24 * 60 * 60
        /\ (w[2] - w[1] < 7 * 24 * 60 * 60 => w[2] = fetch_args.end_date)

WindowsAdvance ==
    /\ \A k \in Requests : k < Len(http_log) =>
          \/ http_log[k + 1].lo = http_log[k].lo /\ http_log[k + 1].hi = http_log[k].hi
          \/ http_log[k + 1].lo > http_log[k].lo /\ http_log[k + 1].lo = http_log[k].hi + 1
    /\ \A v, w \in Windows : v # w => v[2] < w[1] \/ w[2] < v[1]
    /\ (fetch_pc = "while" /\ http_log # << >>) =>
          /\ current_date > http_log[Len(http_log)].lo
          /\ current_date = http_log[Len(http_log)].hi + 1

WindowsCover ==
    (fetch_pc = "returned" /\ fetch_args.start_date <= fetch_args.end_date) =>
        /\ \E w \in Windows : w[1] = fetch_args.start_date
        /\ \E w \in Windows : w[2] = fetch_args.end_date
        /\ \A t \in Probes : Cardinality(WindowsOf(t)) = 1

\* C23: a call of fetch_historical_data returns, whatever the responses;
\* the first second of the window grows from one iteration to the next;
\* every window lies in [start, end] and is at most 7 days long, shorter
\* only when it ends at end; the next window starts one second after the
\* last one's end and no two windows share an instant; at the return of a
\* call with start <= end every instant of the range is in exactly one
\* window.
C23_WindowsTile ==
    /\ [](WindowsInRange /\ WindowsAdvance /\ WindowsCover)
    /\ (fetch_pc = "while") ~> (fetch_pc = "returned")

\* a call that returned after MaxWindows windows of a range that does not start
\* at 0, the last window cut short by end_date, with one window whose
\* attempts all failed
C23_Witness ==
    /\ fetch_pc = "returned"
    /\ fetch_args.start_date > 0
    /\ Cardinality(Windows) = MaxWindows
    /\ \E w \in Windows : w[2] - w[1] < Week
    /\ \E k \in Requests : \A b \in RequestsOf(http_log[k].lo) : ~Succeeded(b)
    /\ \E k \in Requests : Succeeded(k)

=============================================================================
